---- MODULE Spec2Model ----
(***************************************************************************)
(* Model of the MuSync transfer pipeline (app/application/pipeline.py):    *)
(* CheckpointManager, BatchProcessor.process_batch and                     *)
(* TransferPipeline.transfer_playlist with its fresh and resume paths.     *)
(*                                                                         *)
(* One (job id, playlist id) pair is modelled.  The source provider        *)
(* returns a stable listing (srcTracks).  find_track_candidates followed   *)
(* by find_best_match is one outcome per track: the uri and the reason of  *)
(* the MatchResult, or an exception.  The target provider answers each    *)
(* add_tracks_batch call with an AddResult, RateLimited, or a failure,     *)
(* chosen freely.  The process can be killed between two steps and inside  *)
(* a save, which leaves the checkpoint file cut short.                     *)
(* A sleep is recorded as the fraction of seconds given to time.sleep.     *)
(***************************************************************************)
EXTENDS Integers, Sequences, FiniteSets, TLC

VARIABLES
    srcTracks,        \* source_provider.list_tracks(): one match outcome per track
    batch_size,       \* BatchProcessor.batch_size
    store,            \* the checkpoint file of the pair: absent, a record, or cut short
    target,           \* target playlist: number of times each URI was added
    pc,               \* position inside transfer_playlist ("idle" between calls)
    dry_run,          \* argument of the running invocation
    checkpoint_data,  \* in-memory checkpoint dict of the running invocation
    idx,              \* loop index of the matching loop (i / start_index + i)
    matched_uris,     \* matched_uris / new_matched_uris
    match_results,    \* match_results of the running invocation
    already_added_count,
    batches,          \* split_into_batches(matched_uris)
    batch_index,
    totals,           \* total_added, total_duplicates, total_errors
    errors,           \* batch indexes whose error message was appended
    pb,               \* frame of BatchProcessor.process_batch
    result,           \* what the last invocation produced
    hist,             \* observations: what was loaded, submitted, accepted
    fbm,              \* frame of TrackMatcher.find_best_match
    snap,             \* frame of calculate_snapshot_hash, called on two orderings
    cm,               \* CheckpointManager: the files of checkpoint_dir, the last call
    fmr               \* frame of calculate_false_match_rate

vars == << srcTracks, batch_size, store, target, pc, dry_run, checkpoint_data, idx,
           matched_uris, match_results, already_added_count, batches,
           batch_index, totals, errors, pb, result, hist, fbm,
           snap, cm, fmr >>

(* What no step of a transfer changes. *)
fixed == << srcTracks, batch_size, fbm, snap, cm, fmr >>

locals == << dry_run, checkpoint_data, idx, matched_uris, match_results,
             already_added_count, batches, batch_index, totals, errors >>

-----------------------------------------------------------------------------
(* Bounds of the model *)

MaxTail == 3          \* longest source listing without a stretch of filler
MaxRuns == 2          \* invocations per behaviour: transfers and likes migrations
MaxLiked == 1         \* most liked tracks of a likes migration
MaxRateLimited == 1   \* RateLimited answers per batch
BatchSize == 2        \* batch_size given to the pipeline (a constructor argument)
MaxSplitLen == 7      \* longest list given to split_into_batches on its own
MaxSplitBatch == 3    \* largest batch_size of split_into_batches on its own
MaxCandidates == 2    \* longest candidate list given to find_best_match
MaxResults == 3       \* most results given to calculate_false_match_rate
MaxSnapshot == 3      \* most tracks given to calculate_snapshot_hash

(* Program constants *)

MaxRetries == 3       \* BatchProcessor.max_retries default
CheckpointEvery == 10 \* (i + 1) % 10 == 0
ToleranceMs == 2000   \* tolerance_ms default of build_track_key
FuzzyThreshold == 85  \* TrackMatcher.fuzzy_threshold default, in hundredths
BalancedFloor == 80   \* min_conf of risk mode 'balanced', in hundredths
AmbiguousThreshold == 5   \* ambiguous_threshold = 0.05, kept by __init__ and never read

URIs == {"u1", "u2"}
NoUri == "None"

(* What the search and find_best_match give for a track: the uri and reason
   of the selected candidate (a hit found by ISRC, a fuzzy hit, a hit that
   carries neither uri nor id), not_found, or an exception. *)
Outcome(uri, reason) == [uri |-> uri, reason |-> reason]
Raises == Outcome(NoUri, "raise")
Outcomes ==
    {Outcome("u1", "isrc_exact"), Outcome("u2", "fuzzy_match"),
     Outcome(NoUri, "fuzzy_match"), Outcome(NoUri, "not_found"), Raises}
RetryAfterMs == {1500}
Failures == {"TemporaryFailure", "PermanentFailure"}
Statuses == {"added", "duplicate", "error"}

NoCheckpoint == [stage |-> "absent"]

(* The file after a save that was cut short between open(path, 'w'), which
   truncates it, and the end of json.dump: it exists and json.load fails. *)
TornCheckpoint == [stage |-> "unreadable"]
NoResult == [kind |-> "none"]

(* A sleep is a number of seconds num/den; NoSleep: time.sleep was not called. *)
Seconds(num, den) == [num |-> num, den |-> den]
NoSleep == Seconds(-1, 1)
SameDuration(a, b) == a.num * b.den = b.num * a.den

-----------------------------------------------------------------------------
(* Helpers *)

Range(s) == {s[k] : k \in 1..Len(s)}

SeqUpTo(S, n) == UNION {[1..k -> S] : k \in 0..n}

Filler(n) == [k \in 1..n |-> Outcome(NoUri, "not_found")]

Count(s, P(_)) == Cardinality({k \in 1..Len(s) : P(s[k])})

Min(a, b) == IF a < b THEN a ELSE b

(* source_tracks[start_index:] and batch_uris[:n] *)
SliceFrom(s, start) == IF start >= Len(s) THEN << >> ELSE SubSeq(s, start + 1, Len(s))
Prefix(s, n) == SubSeq(s, 1, Min(n, Len(s)))

(* The outcomes that give a URI to write. *)
Matches == {outcome \in Outcomes : outcome.uri # NoUri}

(* Listings: fewer than MaxTail freely chosen tracks; MaxTail matched
   tracks, which fill more than one batch, the first of them matching one
   URI and the others another; and a stretch of unmatched tracks
   followed by freely chosen ones up to the track at which the matching loop
   makes its periodic save. *)
FillerLength == CheckpointEvery - 2
SourceListings ==
    SeqUpTo(Outcomes, MaxTail - 1)
        \cup {[k \in 1..MaxTail |-> IF k <= n THEN Outcome("u1", "isrc_exact")
                                     ELSE Outcome("u2", "fuzzy_match")] :
                 n \in 0..MaxTail}
        \cup {Filler(FillerLength) \o s :
                 s \in [1..(CheckpointEvery - FillerLength) -> Outcomes]}

-----------------------------------------------------------------------------
(* CheckpointManager: a save_checkpoint that returns has overwritten the
   file of the pair; load_checkpoint returns the record, or None when the
   file is absent or json.load fails on it. *)

save_checkpoint(data) == data

load_checkpoint == IF store = TornCheckpoint THEN NoCheckpoint ELSE store

(* The checkpoint dict built by _start_fresh_transfer. *)
InitialCheckpoint ==
    [stage |-> "scanning", batchIndex |-> 0, trackIndex |-> 0,
     addedUris |-> << >>, totalTracks |-> 0, processedTracks |-> 0]

-----------------------------------------------------------------------------
(* BatchProcessor *)

(* Mutant: a last batch shorter than batch_size is dropped. *)
split_DropsShortBatch(track_uris) ==
    [k \in 1..(Len(track_uris) \div batch_size) |->
        [j \in 1..batch_size |-> track_uris[(k - 1) * batch_size + j]]]

(* Mutant: only the first batch is made. *)
split_FirstBatchOnly(track_uris) ==
    IF Len(track_uris) = 0 THEN << >> ELSE << Prefix(track_uris, batch_size) >>

(* for i in range(0, len(track_uris), self.batch_size):
       batches.append(track_uris[i:i + self.batch_size]) *)
RECURSIVE split_into_batches(_)
split_into_batches(track_uris) ==
    IF Len(track_uris) = 0 THEN << >>
    ELSE << Prefix(track_uris, batch_size) >>
         \o split_into_batches(SliceFrom(track_uris, batch_size))

(* time.sleep(e.retry_after_ms / 1000.0) *)
RateLimitSleep(retry_after_ms) == Seconds(retry_after_ms, 1000)

(* Mutant: the exponent is the attempt number itself. *)
Backoff_FromTwo(attempt) == Seconds(2 ^ attempt, 1)

(* backoff_time = 2 ** (attempt - 1) *)
Backoff(attempt) == Seconds(2 ^ (attempt - 1), 1)

IdleBatch ==
    [state |-> "idle", uris |-> << >>, attempt |-> 0, calls |-> 0,
     failures |-> 0, rateLimited |-> 0, lastAnswer |-> "none",
     lastRetryAfterMs |-> 0, lastSleep |-> NoSleep, lastUris |-> << >>,
     error |-> "none",
     result |-> [added |-> 0, duplicates |-> 0, errors |-> 0]]

(* Entry of process_batch: attempt = 0; with dry_run the synthetic AddResult
   is returned without calling the provider. *)
EnterProcessBatch(track_uris, dry) ==
    IF dry
    THEN [IdleBatch EXCEPT !.state = "returned", !.uris = track_uris,
              !.result = [added |-> Len(track_uris), duplicates |-> 0, errors |-> 0]]
    ELSE [IdleBatch EXCEPT !.state = "running", !.uris = track_uris]

(* AddResult of a call in which the target gave each URI one status. *)
AddResultOf(st) ==
    [added |-> Count(st, LAMBDA x : x = "added"),
     duplicates |-> Count(st, LAMBDA x : x = "duplicate"),
     errors |-> Count(st, LAMBDA x : x = "error")]

TargetAfter(uris, st) ==
    [u \in DOMAIN target |-> target[u] + Cardinality({k \in 1..Len(uris) : uris[k] = u /\ st[k] = "added"})]

(* What every call of add_tracks_batch records, whatever the answer. *)
Called(answer) ==
    [pb EXCEPT !.calls = @ + 1, !.lastAnswer = answer, !.lastUris = pb.uris,
               !.lastSleep = NoSleep]

NoteSubmitted ==
    [hist EXCEPT !.submitted = @ \cup Range(pb.uris), !.called = @ \cup {batch_index},
         !.batchesCalled = IF batch_index \in hist.called THEN @
                           ELSE Append(@, [index |-> batch_index, uris |-> pb.uris])]

(* One iteration of the while loop: the call returns an AddResult and
   process_batch returns it; nothing else of its frame is left. *)
ReturnAfterSuccess(st) ==
    [IdleBatch EXCEPT !.state = "returned", !.uris = pb.uris,
         !.lastAnswer = "AddResult", !.lastUris = pb.uris,
         !.result = AddResultOf(st)]

BatchSucceeds ==
    /\ pb.state = "running"
    /\ pb.attempt <= MaxRetries
    /\ \E st \in [1..Len(pb.uris) -> Statuses] :
          /\ pb' = ReturnAfterSuccess(st)
          /\ target' = TargetAfter(pb.uris, st)
          /\ hist' = [NoteSubmitted EXCEPT !.answeredErrors = @ + AddResultOf(st).errors,
                                           !.answeredAdded = @ + AddResultOf(st).added]
    /\ UNCHANGED << fixed, store, pc, locals, result >>

(* Mutant: a RateLimited answer is counted as an attempt. *)
AfterRateLimited_CountsAttempt(retry_after_ms) ==
    [pb EXCEPT !.calls = @ + 1, !.lastAnswer = "RateLimited", !.lastUris = pb.uris,
         !.rateLimited = @ + 1, !.attempt = @ + 1,
         !.lastRetryAfterMs = retry_after_ms,
         !.lastSleep = Seconds(retry_after_ms, 1000)]

(* except RateLimited: sleep, continue; attempt is left alone. *)
AfterRateLimited(retry_after_ms) ==
    [Called("RateLimited") EXCEPT !.rateLimited = @ + 1,
         !.lastRetryAfterMs = retry_after_ms,
         !.lastSleep = RateLimitSleep(retry_after_ms)]

BatchRateLimited ==
    /\ pb.state = "running"
    /\ pb.attempt <= MaxRetries
    /\ pb.rateLimited < MaxRateLimited
    /\ \E ms \in RetryAfterMs : pb' = AfterRateLimited(ms)
    /\ hist' = NoteSubmitted
    /\ UNCHANGED << fixed, store, target, pc, locals, result >>

(* Mutant: gives up when attempt reaches max_retries (>= instead of >). *)
AfterFailure_GivesUpEarly(kind) ==
    LET attempt == pb.attempt + 1
        c == [pb EXCEPT !.calls = @ + 1, !.lastAnswer = kind, !.lastUris = pb.uris,
                  !.lastSleep = NoSleep, !.attempt = attempt, !.failures = @ + 1]
    IN  IF attempt >= MaxRetries
        THEN [c EXCEPT !.state = "raised", !.error = "TemporaryFailure"]
        ELSE [c EXCEPT !.lastSleep = Seconds(2 ^ (attempt - 1), 1)]

(* Mutant: a failure is not counted as an attempt. *)
AfterFailure_NotCounted(kind) ==
    [pb EXCEPT !.lastAnswer = kind, !.lastUris = pb.uris, !.lastSleep = Backoff(1)]

(* except (TemporaryFailure, Exception): count the attempt, give up with
   TemporaryFailure past max_retries, else back off and retry. *)
AfterFailure(kind) ==
    LET attempt == pb.attempt + 1
        c == [Called(kind) EXCEPT !.attempt = attempt, !.failures = @ + 1]
    IN  IF attempt > MaxRetries
        THEN [c EXCEPT !.state = "raised", !.error = "TemporaryFailure"]
        ELSE [c EXCEPT !.lastSleep = Backoff(attempt)]

BatchFails ==
    /\ pb.state = "running"
    /\ pb.attempt <= MaxRetries
    /\ \E kind \in Failures : pb' = AfterFailure(kind)
    /\ hist' = IF pb'.state = "raised"
               THEN [NoteSubmitted EXCEPT !.raised =
                        Append(@, [index |-> batch_index, size |-> Len(pb.uris)])]
               ELSE NoteSubmitted
    /\ UNCHANGED << fixed, store, target, pc, locals, result >>

ProcessBatchStep == BatchSucceeds \/ BatchRateLimited \/ BatchFails

-----------------------------------------------------------------------------
(* Text normalization (app/domain/normalization.py).  A str is a TLA+ string
   over the characters of CodePoints; an Optional[str] is the set of its
   values, {} being None. *)

NoText == {}

(* value or "" *)
or_empty(value) == IF value = {} THEN "" ELSE CHOOSE text \in value : TRUE

(* bool(value) of an Optional[str] *)
truthy(value) == value # {} /\ value # {""}

Lowercase == "abcdefghijklmnopqrstuvwxyz"
Uppercase == "ABCDEFGHIJKLMNOPQRSTUVWXYZ"
Digits == "0123456789"

(* The characters of Latin-1 from U+00A1 on, in code-point order. *)
Latin1 ==
    "¡¢£¤¥¦§¨©ª«¬­®¯°±²³´µ¶·¸¹º»¼½¾¿ÀÁÂÃÄÅÆÇÈÉÊËÌÍÎÏÐÑÒÓÔÕÖ×ØÙÚÛÜÝÞßàáâãäåæçèéêëìíîïðñòóôõö÷øùúûüýþÿ"

(* Those of them that are upper-case letters, and the lower case
   str.lower() gives for each. *)
Latin1Upper == "ÀÁÂÃÄÅÆÇÈÉÊËÌÍÎÏÐÑÒÓÔÕÖØÙÚÛÜÝÞ"
Latin1Lower == "àáâãäåæçèéêëìíîïðñòóôõöøùúûüýþ"

(* The characters unicodedata.normalize("NFKD", text) replaces by one
   character and combining ones, the no-break space U+00A0 first, and what
   is left of each once the combining characters are dropped. *)
Composed ==
    " ¨ª¯²³´µ¸¹ºÀÁÂÃÄÅÇÈÉÊËÌÍÎÏÑÒÓÔÕÖÙÚÛÜÝàáâãäåçèéêëìíîïñòóôõöùúûüýÿ"
Decomposed ==
    "  a 23 μ 1oAAAAAACEEEEIIIINOOOOOUUUUYaaaaaaceeeeiiiinooooouuuuyy"

(* The vulgar fractions, which NFKD takes apart into numerator, FRACTION
   SLASH and denominator.  No string of the model can hold U+2044, which is
   written by its name; it is neither \w nor \s. *)
Fractions == "¼½¾"
Numerators == "113"
Denominators == "424"
FractionSlash == "U+2044"

(* The characters a str of the model can hold, in code-point order: those of
   Latin-1 from U+0001 on without the grave accent U+0060, and the Greek
   letter mu U+03BC, which NFKD gives for the micro sign.  No operator on
   str has a value for a text with another character. *)
CodePoints ==
    "\t\n\f\r !\"#$%&'()*+,-./0123456789:;<=>?@ABCDEFGHIJKLMNOPQRSTUVWXYZ[\\]^_abcdefghijklmnopqrstuvwxyz{|}~ "
        \o Latin1 \o "μ"

CharAt(text, k) == SubSeq(text, k, k)

Chars(text) == {CharAt(text, k) : k \in 1..Len(text)}

(* text.index(char) + 1 *)
Position(text, char) == CHOOSE k \in 1..Len(text) : CharAt(text, k) = char

(* ord(char): CodePoints begins with U+0001, leaves out U+0060 and ends
   with U+00FF and U+03BC *)
OrdOf ==
    [char \in Chars(CodePoints) |->
        LET k == Position(CodePoints, char)
        IN  IF k < 96 THEN k ELSE IF k < Len(CodePoints) THEN k + 1 ELSE 956]

Ord(char) == OrdOf[char]

chr(code) == CHOOSE char \in Chars(CodePoints) : OrdOf[char] = code

(* A str under work is the sequence of its characters. *)
list(text) == [k \in 1..Len(text) |-> CharAt(text, k)]

(* "".join(chars) *)
RECURSIVE str(_)
str(chars) == IF Len(chars) = 0 THEN "" ELSE Head(chars) \o str(Tail(chars))

(* \s and \w of the re module and str.isdigit(), on the characters of the
   model.  White space is \t \n \v \f \r, U+001C to U+001F, the space,
   U+0085 and U+00A0; the superscript digits are digits; the vulgar
   fractions are numbers; and the letters beyond ASCII are those of
   Latin1Upper and Latin1Lower, the five of Latin-1 with no other case in
   it and the Greek mu. *)
Spaces == {chr(code) : code \in {9, 10, 11, 12, 13, 28, 29, 30, 31, 32, 133, 160}}
DigitChars == Chars(Digits) \cup Chars("²³¹")
WordChars ==
    Chars(Lowercase) \cup Chars(Uppercase)
        \cup Chars(Latin1Upper) \cup Chars(Latin1Lower) \cup Chars("ªµºßÿμ")
        \cup DigitChars \cup Chars(Fractions) \cup {"_"}
IsSpace(char) == char \in Spaces
IsWord(char) == char \in WordChars

(* The NFKD form of each character without its combining characters. *)
StrippedOf ==
    [char \in Chars(CodePoints) |->
        IF char \in Chars(Fractions)
        THEN << CharAt(Numerators, Position(Fractions, char)), FractionSlash,
                CharAt(Denominators, Position(Fractions, char)) >>
        ELSE IF char \in Chars(Composed)
        THEN << CharAt(Decomposed, Position(Composed, char)) >>
        ELSE << char >>]

(* _strip_diacritics *)
RECURSIVE strip_diacritics(_)
strip_diacritics(chars) ==
    IF Len(chars) = 0 THEN << >>
    ELSE StrippedOf[Head(chars)] \o strip_diacritics(Tail(chars))

LowerOf ==
    [char \in Chars(Uppercase \o Latin1Upper) |->
        CharAt(Lowercase \o Latin1Lower, Position(Uppercase \o Latin1Upper, char))]

lower_char(char) == IF char \in DOMAIN LowerOf THEN LowerOf[char] ELSE char

(* str.lower() *)
lower(chars) == [k \in 1..Len(chars) |-> lower_char(chars[k])]

(* value.replace("&", " and ") *)
RECURSIVE replace_ampersand(_)
replace_ampersand(chars) ==
    IF Len(chars) = 0 THEN << >>
    ELSE (IF Head(chars) = "&" THEN list(" and ") ELSE << Head(chars) >>)
         \o replace_ampersand(Tail(chars))

(* \b before the character at k *)
WordAt(chars, k) == k >= 1 /\ k <= Len(chars) /\ IsWord(chars[k])
Boundary(chars, k) == WordAt(chars, k - 1) # WordAt(chars, k)

StartsAt(chars, k, word) ==
    /\ k + Len(word) - 1 <= Len(chars)
    /\ \A j \in 1..Len(word) : chars[k + j - 1] = word[j]

FeatDot == list("feat.")
Feat == list("feat")
FtDot == list("ft.")

(* Length of the match of \b(feat\.?|ft\.)\b at k, 0 without a match; every
   alternative begins with f. *)
feat_match(chars, k) ==
    IF chars[k] # "f" \/ ~Boundary(chars, k) THEN 0
    ELSE IF StartsAt(chars, k, FeatDot) /\ Boundary(chars, k + 5) THEN 5
    ELSE IF StartsAt(chars, k, Feat) /\ Boundary(chars, k + 4) THEN 4
    ELSE IF StartsAt(chars, k, FtDot) /\ Boundary(chars, k + 3) THEN 3
    ELSE 0

(* _FEAT_PATTERN.sub(" ", value), from position k on *)
RECURSIVE sub_feat(_, _)
sub_feat(chars, k) ==
    IF k > Len(chars) THEN << >>
    ELSE LET matched == feat_match(chars, k) IN
         IF matched > 0 THEN << " " >> \o sub_feat(chars, k + matched)
         ELSE << chars[k] >> \o sub_feat(chars, k + 1)

Openers == {"(", "[", "{"}
Closers == {")", "]", "}"}

(* Least position from `from` on of a character of the set, 0 without one. *)
RECURSIVE find_first(_, _, _)
find_first(chars, set, from) ==
    IF from > Len(chars) THEN 0
    ELSE IF chars[from] \in set THEN from
    ELSE find_first(chars, set, from + 1)

(* Where the white space that ends before position k begins, not before
   position from. *)
RECURSIVE space_start(_, _, _)
space_start(chars, k, from) ==
    IF k > from /\ IsSpace(chars[k - 1]) THEN space_start(chars, k - 1, from) ELSE k

(* Where the white space that begins after position k ends. *)
RECURSIVE space_end(_, _)
space_end(chars, k) ==
    IF k < Len(chars) /\ IsSpace(chars[k + 1]) THEN space_end(chars, k + 1) ELSE k

(* _PARENS_CONTENT_PATTERN.sub(" ", value), from position k on: each match
   is the white space before an opening bracket, the text up to the first
   closing bracket after it, and the white space that follows *)
RECURSIVE sub_parens(_, _)
sub_parens(chars, k) ==
    LET opener == find_first(chars, Openers, k)
        closer == IF opener = 0 THEN 0 ELSE find_first(chars, Closers, opener + 1)
    IN  IF closer = 0 THEN SubSeq(chars, k, Len(chars))
        ELSE SubSeq(chars, k, space_start(chars, opener, k) - 1) \o << " " >>
             \o sub_parens(chars, space_end(chars, closer) + 1)

(* while True: new_value = _PARENS_CONTENT_PATTERN.sub(" ", value) *)
RECURSIVE strip_parens(_)
strip_parens(chars) ==
    LET new_value == sub_parens(chars, 1)
    IN  IF new_value = chars THEN chars ELSE strip_parens(new_value)

(* _PARENS_CHARS_PATTERN, _NON_WORD_SPACE_PATTERN and replace("_", " ") *)
strip_punctuation(chars) ==
    [k \in 1..Len(chars) |->
        IF IsSpace(chars[k]) \/ (IsWord(chars[k]) /\ chars[k] # "_")
        THEN chars[k] ELSE " "]

(* The words between runs of white space, from position k on. *)
RECURSIVE split_from(_, _, _)
split_from(chars, k, word) ==
    IF k > Len(chars) THEN (IF word = << >> THEN << >> ELSE << str(word) >>)
    ELSE IF IsSpace(chars[k])
    THEN (IF word = << >> THEN << >> ELSE << str(word) >>) \o split_from(chars, k + 1, << >>)
    ELSE split_from(chars, k + 1, Append(word, chars[k]))

(* str.split() *)
split(text) == split_from(list(text), 1, << >>)

(* sep.join(texts) *)
RECURSIVE join(_, _)
join(sep, texts) ==
    IF Len(texts) = 0 THEN ""
    ELSE IF Len(texts) = 1 THEN texts[1]
    ELSE texts[1] \o sep \o join(sep, Tail(texts))

(* normalize_string on a str; _MULTISPACE_PATTERN.sub(" ", value).strip()
   leaves the words joined by one space *)
normalize_string(value) ==
    join(" ", split_from(strip_punctuation(strip_parens(
        sub_feat(replace_ampersand(lower(strip_diacritics(list(value)))), 1))),
        1, << >>))

(* What normalize_string returns for each text of the tracks and candidates
   of the model, computed once from the text as it is written here: TLC
   keeps which string a state holds, but not its characters beyond ASCII. *)
NormalizedOf ==
    [value \in {"", "Song", "Song (Live)", "SONG", "Sóng", "Other", "The X Files",
                "Live", "7", "X", "Y", "A", "B"} |-> normalize_string(value)]

(* A call of normalize_string: the value it returns for the text. *)
normalize(value) ==
    IF value \in DOMAIN NormalizedOf THEN NormalizedOf[value]
    ELSE normalize_string(value)

(* a < b on str *)
RECURSIVE StrLess(_, _)
StrLess(a, b) ==
    IF Len(b) = 0 THEN FALSE
    ELSE IF Len(a) = 0 THEN TRUE
    ELSE IF CharAt(a, 1) = CharAt(b, 1)
         THEN StrLess(SubSeq(a, 2, Len(a)), SubSeq(b, 2, Len(b)))
         ELSE Ord(CharAt(a, 1)) < Ord(CharAt(b, 1))

RECURSIVE InsertSorted(_, _)
InsertSorted(sorted, text) ==
    IF Len(sorted) = 0 THEN << text >>
    ELSE IF StrLess(text, Head(sorted)) THEN << text >> \o sorted
    ELSE << Head(sorted) >> \o InsertSorted(Tail(sorted), text)

(* Mutant: the keys are left in the order of the tracks. *)
sort_Unsorted(texts) == texts

(* list.sort() / sorted() on a list of str *)
RECURSIVE sort(_)
sort(texts) ==
    IF Len(texts) = 0 THEN << >>
    ELSE InsertSorted(sort(SubSeq(texts, 1, Len(texts) - 1)), texts[Len(texts)])

strip_leading_articles(name) ==
    IF Len(name) >= 4 /\ SubSeq(name, 1, 4) = "the "
    THEN SubSeq(name, 5, Len(name))
    ELSE name

(* sorted(... for a in artists if a), " ".join(n for n in normalized if n) *)
normalize_artists_joined(artists) ==
    LET named == SelectSeq(artists, LAMBDA a : a # "")
        normalized == sort([k \in 1..Len(named) |->
                              strip_leading_articles(normalize(named[k]))])
    IN  join(" ", SelectSeq(normalized, LAMBDA n : n # ""))

-----------------------------------------------------------------------------
(* TrackMatcher (app/application/matching.py).  A confidence is written in
   hundredths.  An Optional value is the set of its values: {} is None. *)

RiskModes == {"strict", "balanced", "aggressive"}
TailTokens == {"vol", "pt", "remaster", "remastered", "live", "edit"}

(* tok.isdigit() of a token, which is not empty *)
isdigit(tok) == \A k \in 1..Len(tok) : CharAt(tok, k) \in DigitChars

(* _tokenize_artist_names: the words of the joined names that are neither
   numbers nor tail tokens *)
tokenize_artist_names(artists) ==
    IF artists = << >> THEN {}
    ELSE {tok \in Range(split(normalize_artists_joined(artists))) :
             ~isdigit(tok) /\ tok \notin TailTokens}

(* artist_overlap_ok, a closure over source_artist_tokens *)
artist_overlap_ok(source_artist_tokens, candidate_artists) ==
    LET cand_tokens == tokenize_artist_names(candidate_artists) IN
    IF source_artist_tokens # {}
    THEN source_artist_tokens \cap cand_tokens # {}
    ELSE cand_tokens # {}

(* full_text: title equality and artist overlap *)
full_text(source_title_n, source_artist_tokens, candidates) ==
    SelectSeq(candidates, LAMBDA c :
        /\ normalize(or_empty(c.title)) = source_title_n
        /\ artist_overlap_ok(source_artist_tokens, c.artists))

(* pool = full_text if full_text else [c for c in meta_candidates if
   artist_overlap_ok(c.artists)], matched being the list full_text *)
pool_of(source_artist_tokens, candidates, matched) ==
    IF matched # << >> THEN matched
    ELSE SelectSeq(candidates, LAMBDA c :
             artist_overlap_ok(source_artist_tokens, c.artists))

(* source_title_n, source_artist_tokens, full_text and pool *)
metadata_pool(source_track, candidates) ==
    LET source_title_n == normalize(or_empty(source_track.title))
        source_artist_tokens == tokenize_artist_names(source_track.artists)
    IN  pool_of(source_artist_tokens, candidates,
                full_text(source_title_n, source_artist_tokens, candidates))

(* normalize_string(a or "") *)
normalize_album(a) == normalize(or_empty(a))

(* Tie-break: album match (if source_track.album) *)
album_tie_break(source_track, pool) ==
    IF ~truthy(source_track.album) THEN pool
    ELSE LET src_album_n == normalize_album(source_track.album)
             album_matched == SelectSeq(pool, LAMBDA c :
                 normalize_album(c.album) = src_album_n)
         IN  IF album_matched # << >> THEN album_matched ELSE pool

(* Mutant: a candidate without a rank sorts first. *)
rank_key_UnrankedFirst(c) == IF c.rank = {} THEN -1 ELSE CHOOSE r \in c.rank : TRUE

(* rank if isinstance(rank, int) else 10**9 *)
rank_key(c) == IF c.rank = {} THEN 10 ^ 9 ELSE CHOOSE r \in c.rank : TRUE

(* key=lambda c: (rank_key(c), -c.confidence) *)
ByRankThenConfidence(a, b) ==
    \/ rank_key(a) < rank_key(b)
    \/ rank_key(a) = rank_key(b) /\ a.confidence > b.confidence

(* Mutant: the fallback sorts by ascending confidence. *)
ByConfidenceAsc(a, b) == a.confidence < b.confidence

(* key=lambda c: c.confidence, reverse=True *)
ByConfidenceDesc(a, b) == a.confidence > b.confidence

(* sorted(items, key)[0] of a stable sort: the first of the least items *)
SortedFirst(items, Less(_, _)) ==
    items[CHOOSE k \in 1..Len(items) :
             /\ \A j \in 1..Len(items) : ~Less(items[j], items[k])
             /\ \A j \in 1..(k - 1) : Less(items[k], items[j])]

(* selected = pool_sorted[0] of a pool that is not empty; sorted_candidates[0]
   if selected is None *)
selected_of(source_track, candidates, pool) ==
    IF pool # << >>
    THEN SortedFirst(album_tie_break(source_track, pool), ByRankThenConfidence)
    ELSE SortedFirst(candidates, ByConfidenceDesc)

(* The candidate find_best_match selects, before the gating. *)
selected_candidate(source_track, candidates) ==
    selected_of(source_track, candidates,
                IF truthy(source_track.title) /\ source_track.artists # << >>
                THEN metadata_pool(source_track, candidates)
                ELSE << >>)

(* Mutant: no risk mode has a floor. *)
min_conf_NoFloor(risk_mode) == 0

(* Risk-mode minimal gating on confidence *)
min_conf(risk_mode) ==
    CASE risk_mode = "strict" -> FuzzyThreshold
      [] risk_mode = "balanced" -> BalancedFloor
      [] OTHER -> 0

(* Mutant: the empty or gated result is called ambiguous. *)
NotFound_Ambiguous == [uri |-> NoUri, confidence |-> 0, reason |-> "ambiguous"]

NotFound == [uri |-> NoUri, confidence |-> 0, reason |-> "not_found"]

(* Two candidates whose confidences differ by ambiguous_threshold at most. *)
NearTie(candidates) ==
    \E j, k \in 1..Len(candidates) :
        /\ j # k
        /\ candidates[j].confidence - candidates[k].confidence \in 0..AmbiguousThreshold

(* if selected.confidence < min_conf: not_found; else the MatchResult of the
   selected candidate *)
gated(risk_mode, selected) ==
    IF selected.confidence < min_conf(risk_mode) THEN NotFound
    ELSE [uri |-> selected.uri, confidence |-> selected.confidence,
          reason |-> selected.reason]

(* Mutant: a near-tie of two candidates stops the selection. *)
find_best_match_StopsOnNearTie(risk_mode, source_track, candidates) ==
    IF candidates = << >> THEN NotFound
    ELSE IF NearTie(candidates)
    THEN [uri |-> NoUri, confidence |-> 0, reason |-> "ambiguous"]
    ELSE gated(risk_mode, selected_candidate(source_track, candidates))

(* Mutant: a selected candidate below the floor gives way to the candidate
   of highest confidence. *)
find_best_match_FallsBack(risk_mode, source_track, candidates) ==
    IF candidates = << >> THEN NotFound
    ELSE LET selected == selected_candidate(source_track, candidates)
             other == SortedFirst(candidates, ByConfidenceDesc)
             kept == IF selected.confidence < min_conf(risk_mode) THEN other ELSE selected
         IN  gated(risk_mode, kept)

find_best_match(risk_mode, source_track, candidates) ==
    IF candidates = << >> THEN NotFound
    ELSE gated(risk_mode, selected_candidate(source_track, candidates))

NoCandidate ==
    [uri |-> NoUri, confidence |-> 0, reason |-> "none", title |-> NoText,
     artists |-> << >>, album |-> NoText, rank |-> {}]

NoTrack == [title |-> {""}, artists |-> << >>, album |-> NoText]

IdleMatch ==
    [risk_mode |-> "strict", source_track |-> NoTrack, candidates |-> << >>,
     selected |-> NoCandidate, result |-> NotFound]

(* A float that is a quotient of two counts: num / den; 0.0 is 0 / 1. *)
Quotient(num, den) == [num |-> num, den |-> den]

(* raise ValueError("Number of results must match number of expected
   URIs"): the call returns no float. *)
ValueError == [raises |-> "ValueError"]

(* Mutant: a matched result without an expected URI is left out of
   total_matches. *)
calculate_false_match_rate_OverExpected(results, expected_uris) ==
    LET zipped == 1..Len(results)
        false_matches == Cardinality({k \in zipped : /\ results[k] # NoUri
                                                      /\ expected_uris[k] # NoUri
                                                      /\ results[k] # expected_uris[k]})
        total_matches == Cardinality({k \in zipped : /\ results[k] # NoUri
                                                      /\ expected_uris[k] # NoUri})
    IN  IF Len(results) # Len(expected_uris) THEN ValueError
        ELSE IF total_matches = 0 THEN Quotient(0, 1)
        ELSE Quotient(false_matches, total_matches)

(* calculate_false_match_rate on the URIs of the results: ValueError when
   the two lists differ in length, 0.0 for no results, and otherwise the
   counts of the loop over zip(results, expected_uris). *)
calculate_false_match_rate(results, expected_uris) ==
    LET zipped == 1..Len(results)
        false_matches == Cardinality({k \in zipped : /\ results[k] # NoUri
                                                      /\ expected_uris[k] # NoUri
                                                      /\ results[k] # expected_uris[k]})
        total_matches == Cardinality({k \in zipped : results[k] # NoUri})
    IN  IF Len(results) # Len(expected_uris) THEN ValueError
        ELSE IF Len(results) = 0 THEN Quotient(0, 1)
        ELSE IF total_matches = 0 THEN Quotient(0, 1)
        ELSE Quotient(false_matches, total_matches)

IdleRate == [results |-> << >>, expected_uris |-> << >>, returned |-> Quotient(0, 1)]

-----------------------------------------------------------------------------
(* Idempotency layer (app/application/idempotency.py) and the track key of
   app/domain/normalization.py.  A str is a TLA+ string; its characters are
   compared by code point, as Python compares them. *)

(* int(round(duration_ms / bucket)) * bucket, round() rounding halves to even *)
round_duration_ms(duration_ms, tolerance_ms) ==
    IF duration_ms < 0 THEN 0
    ELSE LET bucket == IF tolerance_ms > 1 THEN tolerance_ms ELSE 1
             q == duration_ms \div bucket
             r == duration_ms % bucket
             rounded == IF 2 * r < bucket THEN q
                        ELSE IF 2 * r > bucket THEN q + 1
                        ELSE IF q % 2 = 0 THEN q ELSE q + 1
         IN  rounded * bucket

build_track_key(track) ==
    IF truthy(track.isrc) THEN "isrc:" \o or_empty(track.isrc)
    ELSE "meta:" \o normalize(or_empty(track.title)) \o "::"
         \o normalize_artists_joined(track.artists) \o "::"
         \o ToString(round_duration_ms(track.duration_ms, ToleranceMs))

(* hashlib.sha256(text.encode('utf-8')).hexdigest(): a function of the text *)
sha256(text) == [sha256 |-> text]

calculate_snapshot_hash(tracks) ==
    IF Len(tracks) = 0 THEN sha256("empty_snapshot")
    ELSE sha256(join("\n", sort([k \in 1..Len(tracks) |-> build_track_key(tracks[k])])))

IdleSnapshot ==
    [tracks |-> << >>, reordered |-> << >>, digest |-> sha256(""),
     digestReordered |-> sha256("")]

-----------------------------------------------------------------------------
(* CheckpointManager: one JSON file per checkpoint in checkpoint_dir *)

JobIds == {"j", "j_p"}
PlaylistIds == {"q", "p_q"}
Pairs == JobIds \X PlaylistIds

(* _get_checkpoint_path, without the directory *)
get_checkpoint_path(job_id, playlist_id) == job_id \o "_" \o playlist_id \o ".json"

Filenames == {get_checkpoint_path(pair[1], pair[2]) : pair \in Pairs}

startswith(text, prefix) ==
    Len(text) >= Len(prefix) /\ SubSeq(text, 1, Len(prefix)) = prefix

endswith(text, suffix) ==
    Len(text) >= Len(suffix)
    /\ SubSeq(text, Len(text) - Len(suffix) + 1, Len(text)) = suffix

(* Python values of a checkpoint record: str, int and list; JSON has arrays *)
PyList(items) == [type |-> "list", items |-> items]

CheckpointRecords(job_id, playlist_id) ==
    {[jobId |-> job_id, playlistId |-> playlist_id, stage |-> "scanning",
      batchIndex |-> 0, addedUris |-> PyList(<< >>)],
     [jobId |-> job_id, playlistId |-> playlist_id, stage |-> "writing",
      batchIndex |-> 1, addedUris |-> PyList(<<"u1">>)]}

(* json.dump: a list (or a tuple) is written as an array *)
json_dump(data) ==
    [json |-> [data EXCEPT !.addedUris = [type |-> "array", items |-> @.items]]]

json_load_KeepsArrays(text) == text.json

(* json.load: an array is read as a list *)
json_load(text) ==
    [text.json EXCEPT !.addedUris = [type |-> "list", items |-> @.items]]

NoFile == [absent |-> TRUE]
None == [type |-> "None"]

(* os.path.exists / os.listdir *)
exists(files, name) == files[name] # NoFile
listdir(files) == {name \in DOMAIN files : exists(files, name)}

(* the file written by save_checkpoint: open(path, 'w'), json.dump *)
written(files, job_id, playlist_id, data) ==
    [files EXCEPT ![get_checkpoint_path(job_id, playlist_id)] = json_dump(data)]

(* os.remove; removing a file that is not there changes nothing *)
removed(files, job_id, playlist_id) ==
    [files EXCEPT ![get_checkpoint_path(job_id, playlist_id)] = NoFile]

(* load_checkpoint of the manager: None when the file does not exist *)
loaded(files, job_id, playlist_id) ==
    LET checkpoint_path == get_checkpoint_path(job_id, playlist_id)
    IN  IF ~exists(files, checkpoint_path) THEN None
        ELSE json_load(files[checkpoint_path])

(* the file names list_checkpoints_for_job reads *)
listed_names(files, job_id) ==
    {filename \in listdir(files) :
        startswith(filename, job_id \o "_") /\ endswith(filename, ".json")}

NoRecord == [type |-> "no record"]

IdleManager ==
    [files |-> [name \in Filenames |-> NoFile],
     op |-> "idle", job_id |-> "", playlist_id |-> "", returned |-> None,
     saved |-> [pair \in Pairs |-> NoRecord],
     touched |-> {}]

RECURSIVE SumOver(_, _)
SumOver(S, f) ==
    IF S = {} THEN 0
    ELSE LET x == CHOOSE y \in S : TRUE IN f[x] + SumOver(S \ {x}, f)

(* Number of tracks in the target playlist. *)
TargetSize == SumOver(DOMAIN target, target)

NoBefore ==
    [kind |-> "none", total_tracks |-> 0, matched_tracks |-> 0,
     not_found_tracks |-> 0, added_tracks |-> 0, targetSize |-> 0]

(* The invocation before the one that starts now, when it returned: the
   counts a fresh dry run reported; what a run without dry-run and without
   a failed track reported as added, and the size of the target playlist it
   left.  When it crashed: that it was a fresh transfer without dry-run. *)
Before ==
    IF result.kind = "TransferResult" /\ hist.dry /\ ~hist.resumed
    THEN [NoBefore EXCEPT !.kind = "fresh_dry_run",
              !.total_tracks = result.total_tracks,
              !.matched_tracks = result.matched_tracks,
              !.not_found_tracks = result.not_found_tracks,
              !.added_tracks = result.added_tracks]
    ELSE IF result.kind = "TransferResult" /\ ~hist.dry /\ result.failed_tracks = 0
    THEN [NoBefore EXCEPT !.kind = "nothing_failed",
              !.added_tracks = result.added_tracks,
              !.targetSize = TargetSize]
    ELSE IF result.kind = "crashed" /\ ~hist.dry /\ ~hist.resumed
    THEN [NoBefore EXCEPT !.kind = "fresh_crashed"]
    ELSE NoBefore

NoHist ==
    [runs |-> 0,                   \* invocations started so far
     previous |-> "none",          \* how the invocation before this one ended
     before |-> NoBefore,          \* the report of the invocation before this one
     dry |-> FALSE,                \* dry_run of the latest invocation
     resumed |-> FALSE,            \* load_checkpoint gave it a checkpoint
     loadedAdded |-> << >>,        \* addedUris of that checkpoint
     storeBeforeDry |-> NoCheckpoint,           \* store and target as a dry
     targetBeforeDry |-> [u \in URIs |-> 0],    \* run found them
     acceptedBefore |-> {},        \* URIs the target had added when it started
     submitted |-> {},             \* URIs it passed to add_tracks_batch
     batchCount |-> 0,             \* number of batches it split the URIs into
     splitUris |-> 0,              \* number of URIs it split into batches
     called |-> {},                \* batch indexes it called add_tracks_batch for
     raised |-> << >>,             \* batches for which process_batch raised
     answeredErrors |-> 0,         \* errors reported by the returned AddResults
     answeredAdded |-> 0,          \* added counts of the returned AddResults
     batchesCalled |-> << >>,      \* the batches in the order of their first call
     stages |-> << >>,             \* the stage of each save it made, in order
     saves |-> 0,                  \* its save_checkpoint calls that returned
     lost |-> NoCheckpoint,        \* the record a save cut short has destroyed
     candidateReasons |-> {},      \* when find_best_match gave the playlist's track:
     nearTie |-> FALSE]            \* the reasons of its candidates, and NearTie of them

(* TransferPipeline *)

MatchResult(uri, reason) == [uri |-> uri, reason |-> reason]

(* find_track_candidates + find_best_match for a track that does not raise *)
MatchOf(outcome) == MatchResult(outcome.uri, outcome.reason)

ZeroTotals == [added |-> 0, duplicates |-> 0, errors |-> 0]

ResetLocals ==
    /\ dry_run' = FALSE
    /\ checkpoint_data' = NoCheckpoint
    /\ idx' = 0
    /\ matched_uris' = << >>
    /\ match_results' = << >>
    /\ already_added_count' = 0
    /\ batches' = << >>
    /\ batch_index' = 0
    /\ totals' = ZeroTotals
    /\ errors' = << >>

(* What an invocation notes when it starts. *)
Started(dry, checkpoint) ==
    [hist EXCEPT !.runs = @ + 1, !.dry = dry, !.before = Before,
         !.resumed = checkpoint # NoCheckpoint,
         !.loadedAdded = IF checkpoint # NoCheckpoint THEN checkpoint.addedUris ELSE << >>,
         !.storeBeforeDry = IF dry THEN store ELSE NoCheckpoint,
         !.targetBeforeDry = IF dry THEN target ELSE [u \in DOMAIN target |-> 0],
         !.acceptedBefore = {u \in DOMAIN target : target[u] > 0},
         !.submitted = {}, !.batchCount = 0, !.splitUris = 0,
         !.called = {}, !.raised = << >>,
         !.answeredErrors = 0, !.answeredAdded = 0, !.batchesCalled = << >>,
         !.stages = << >>, !.saves = 0, !.lost = NoCheckpoint]

(* The observations of an invocation end with the process that made them. *)
Died(h) ==
    [h EXCEPT !.previous = "crashed", !.loadedAdded = << >>,
         !.acceptedBefore = {}, !.submitted = {}, !.batchCount = 0,
         !.splitUris = 0, !.called = {}, !.raised = << >>,
         !.answeredErrors = 0, !.answeredAdded = 0, !.batchesCalled = << >>,
         !.stages = << >>, !.saves = 0]

(* What a save notes: store' is the record save_checkpoint has just written. *)
Saved(h) == [h EXCEPT !.saves = @ + 1, !.stages = Append(@, store'.stage)]

(* Mutant: the save after the scan is left out. *)
SaveUnlessDry_Never(dry, data) == UNCHANGED store /\ hist' = hist

(* if not dry_run: self.checkpoint_manager.save_checkpoint(...) *)
SaveUnlessDry(dry, data) ==
    IF dry THEN UNCHANGED store /\ hist' = hist
    ELSE store' = save_checkpoint(data) /\ hist' = Saved(hist)

(* transfer_playlist, no checkpoint found: _start_fresh_transfer up to the
   first save. *)
StartFresh(dry) ==
    /\ pc = "idle"
    /\ hist.runs < MaxRuns
    /\ load_checkpoint = NoCheckpoint
    /\ pc' = "scanning"
    /\ dry_run' = dry
    /\ checkpoint_data' = InitialCheckpoint
    /\ IF dry THEN UNCHANGED store /\ hist' = Started(dry, NoCheckpoint)
       ELSE /\ store' = save_checkpoint(InitialCheckpoint)
            /\ hist' = Saved(Started(dry, NoCheckpoint))
    /\ result' = NoResult
    /\ UNCHANGED << fixed, target, idx, matched_uris, match_results,
                    already_added_count, batches, batch_index, totals, errors, pb >>

(* list_tracks, stage = "matching", save, resolve_or_create_playlist *)
ScanSource ==
    /\ pc = "scanning"
    /\ pc' = "matching"
    /\ checkpoint_data' = [checkpoint_data EXCEPT !.totalTracks = Len(srcTracks),
                                                  !.stage = "matching"]
    /\ SaveUnlessDry(dry_run, checkpoint_data')
    /\ idx' = 0
    /\ matched_uris' = << >>
    /\ match_results' = << >>
    /\ UNCHANGED << fixed, target, dry_run, already_added_count, batches,
                    batch_index, totals, errors, pb, result >>

(* Mutant: the periodic save is made although the run is a dry run. *)
PeriodicSaveDue_IgnoresDryRun(i, dry) == (i + 1) % CheckpointEvery = 0

(* if (i + 1) % 10 == 0 and not dry_run *)
PeriodicSaveDue(i, dry) == (i + 1) % CheckpointEvery = 0 /\ ~dry

(* if match_result.uri: neither None nor the empty str *)
has_uri(match_result) == match_result.uri # NoUri /\ match_result.uri # ""

(* One iteration of the matching loop of _start_fresh_transfer. *)
MatchTrack ==
    /\ pc = "matching"
    /\ idx < Len(srcTracks)
    /\ LET outcome == srcTracks[idx + 1] IN
       IF outcome = Raises
       THEN /\ match_results' = Append(match_results, MatchResult(NoUri, "error"))
            /\ UNCHANGED << matched_uris, checkpoint_data, store, hist >>
       ELSE /\ match_results' = Append(match_results, MatchOf(outcome))
            /\ matched_uris' = IF has_uri(MatchOf(outcome))
                               THEN Append(matched_uris, MatchOf(outcome).uri)
                               ELSE matched_uris
            /\ IF PeriodicSaveDue(idx, dry_run)
               THEN /\ checkpoint_data' = [checkpoint_data EXCEPT
                                              !.trackIndex = idx + 1,
                                              !.processedTracks = idx + 1]
                    /\ store' = save_checkpoint(checkpoint_data')
                    /\ hist' = Saved(hist)
               ELSE UNCHANGED << checkpoint_data, store, hist >>
    /\ idx' = idx + 1
    /\ UNCHANGED << fixed, target, pc, dry_run, already_added_count, batches,
                    batch_index, totals, errors, pb, result >>

(* transfer_playlist, checkpoint found: _resume_from_checkpoint up to the
   matching loop. *)
StartResume(dry) ==
    /\ pc = "idle"
    /\ hist.runs < MaxRuns
    /\ load_checkpoint # NoCheckpoint
    /\ pc' = "resume_matching"
    /\ dry_run' = dry
    /\ checkpoint_data' = load_checkpoint
    /\ idx' = load_checkpoint.trackIndex
    /\ already_added_count' = Len(load_checkpoint.addedUris)
    /\ matched_uris' = << >>
    /\ match_results' = << >>
    /\ hist' = Started(dry, load_checkpoint)
    /\ result' = NoResult
    /\ UNCHANGED << fixed, store, target, batches, batch_index, totals, errors, pb >>

(* Mutant: every matched URI of the tail is submitted again. *)
IsNewMatch_NoFilter(match_result, already_added_uris) == has_uri(match_result)

(* if match_result.uri and match_result.uri not in already_added_uris *)
IsNewMatch(match_result, already_added_uris) ==
    has_uri(match_result) /\ match_result.uri \notin Range(already_added_uris)

(* One iteration of the matching loop of _resume_from_checkpoint: no
   try/except, an exception leaves transfer_playlist. *)
ResumeMatchTrack ==
    /\ pc = "resume_matching"
    /\ idx < Len(srcTracks)
    /\ LET outcome == srcTracks[idx + 1] IN
       IF outcome = Raises
       THEN /\ pc' = "idle"
            /\ result' = [kind |-> "exception"]
            /\ hist' = [hist EXCEPT !.previous = "raised"]
            /\ ResetLocals
       ELSE /\ match_results' = Append(match_results, MatchOf(outcome))
            /\ matched_uris' = IF IsNewMatch(MatchOf(outcome), checkpoint_data.addedUris)
                               THEN Append(matched_uris, MatchOf(outcome).uri)
                               ELSE matched_uris
            /\ idx' = idx + 1
            /\ UNCHANGED << pc, result, hist, dry_run, checkpoint_data,
                            already_added_count, batches, batch_index, totals, errors >>
    /\ UNCHANGED << fixed, store, target, pb >>

Dummies(n) == [k \in 1..n |-> MatchResult("dummy", "already_processed")]

(* _process_matched_tracks up to the batch loop: stage = "writing", save,
   split_into_batches. *)
BeginWriting ==
    /\ pc \in {"matching", "resume_matching"}
    /\ idx >= Len(srcTracks)
    /\ pc' = "writing"
    /\ match_results' = IF pc = "resume_matching"
                        THEN match_results \o Dummies(already_added_count)
                        ELSE match_results
    /\ batches' = split_into_batches(matched_uris)
    /\ IF dry_run
       THEN /\ UNCHANGED << checkpoint_data, store >>
            /\ hist' = [hist EXCEPT !.batchCount = Len(batches'),
                                    !.splitUris = Len(matched_uris)]
       ELSE /\ checkpoint_data' = [checkpoint_data EXCEPT !.stage = "writing"]
            /\ store' = save_checkpoint(checkpoint_data')
            /\ hist' = [Saved(hist) EXCEPT !.batchCount = Len(batches'),
                                           !.splitUris = Len(matched_uris)]
    /\ batch_index' = 0
    /\ totals' = ZeroTotals
    /\ errors' = << >>
    /\ UNCHANGED << fixed, target, dry_run, idx, matched_uris,
                    already_added_count, pb, result >>

(* Head of one iteration of the batch loop: batchIndex, save, and the entry
   of process_batch. *)
StartBatch ==
    /\ pc = "writing"
    /\ batch_index < Len(batches)
    /\ pc' = "in_batch"
    /\ IF dry_run THEN UNCHANGED << checkpoint_data, store, hist >>
       ELSE /\ checkpoint_data' = [checkpoint_data EXCEPT !.batchIndex = batch_index]
            /\ store' = save_checkpoint(checkpoint_data')
            /\ hist' = Saved(hist)
    /\ pb' = EnterProcessBatch(batches[batch_index + 1], dry_run)
    /\ UNCHANGED << fixed, target, dry_run, idx, matched_uris, match_results,
                    already_added_count, batches, batch_index, totals, errors, result >>

(* checkpoint_data["addedUris"].extend(batch_uris[:batch_result.added]) *)
ExtendAdded(added_uris, batch_uris, added) == added_uris \o Prefix(batch_uris, added)

(* process_batch returned: the totals, addedUris.extend(batch_uris[:added]) *)
BatchReturned ==
    /\ pc = "in_batch"
    /\ pb.state = "returned"
    /\ pc' = "writing"
    /\ totals' = [added |-> totals.added + pb.result.added,
                  duplicates |-> totals.duplicates + pb.result.duplicates,
                  errors |-> totals.errors + pb.result.errors]
    /\ checkpoint_data' =
          IF dry_run THEN checkpoint_data
          ELSE [checkpoint_data EXCEPT
                   !.addedUris = ExtendAdded(@, pb.uris, pb.result.added)]
    /\ batch_index' = batch_index + 1
    /\ pb' = IdleBatch
    /\ UNCHANGED << fixed, store, target, dry_run, idx, matched_uris,
                    match_results, already_added_count, batches, errors, result, hist >>

(* Mutant: a failed batch ends the batch loop. *)
AfterFailedBatch_Stops(i) == Len(batches)

(* except Exception: the loop goes on with the next batch. *)
AfterFailedBatch(i) == i + 1

(* process_batch raised: one error message, the batch counted as failed *)
BatchRaised ==
    /\ pc = "in_batch"
    /\ pb.state = "raised"
    /\ pc' = "writing"
    /\ errors' = Append(errors, batch_index)
    /\ totals' = [totals EXCEPT !.errors = @ + Len(pb.uris)]
    /\ batch_index' = AfterFailedBatch(batch_index)
    /\ pb' = IdleBatch
    /\ UNCHANGED << fixed, store, target, dry_run, checkpoint_data, idx,
                    matched_uris, match_results, already_added_count, batches,
                    result, hist >>

(* Mutant: a resumed run reports only what it added itself. *)
TransferResult_ForgetsLoaded ==
    [kind |-> "TransferResult",
     total_tracks |-> Len(srcTracks),
     matched_tracks |-> Count(match_results, LAMBDA r : r.uri # NoUri),
     not_found_tracks |-> Count(match_results, LAMBDA r : r.reason = "not_found"),
     ambiguous_tracks |-> Count(match_results, LAMBDA r : r.reason = "ambiguous"),
     added_tracks |-> IF dry_run THEN 0 ELSE totals.added,
     duplicate_tracks |-> totals.duplicates,
     failed_tracks |-> totals.errors,
     errors |-> errors]

(* Mutant: a dry run reports no matches. *)
TransferResult_DryHidesMatches ==
    [kind |-> "TransferResult",
     total_tracks |-> Len(srcTracks),
     matched_tracks |-> IF dry_run THEN 0
                        ELSE Count(match_results, LAMBDA r : r.uri # NoUri),
     not_found_tracks |-> Count(match_results, LAMBDA r : r.reason = "not_found"),
     ambiguous_tracks |-> Count(match_results, LAMBDA r : r.reason = "ambiguous"),
     added_tracks |-> IF dry_run THEN 0 ELSE totals.added + already_added_count,
     duplicate_tracks |-> totals.duplicates,
     failed_tracks |-> totals.errors,
     errors |-> errors]

(* Mutant: a failed batch counts as one failed track. *)
TransferResult_CountsFailedBatches ==
    [kind |-> "TransferResult",
     total_tracks |-> Len(srcTracks),
     matched_tracks |-> Count(match_results, LAMBDA r : r.uri # NoUri),
     not_found_tracks |-> Count(match_results, LAMBDA r : r.reason = "not_found"),
     ambiguous_tracks |-> Count(match_results, LAMBDA r : r.reason = "ambiguous"),
     added_tracks |-> IF dry_run THEN 0 ELSE totals.added + already_added_count,
     duplicate_tracks |-> totals.duplicates,
     failed_tracks |-> hist.answeredErrors + Len(errors),
     errors |-> errors]

TransferResult ==
    [kind |-> "TransferResult",
     total_tracks |-> Len(srcTracks),
     matched_tracks |-> Count(match_results, LAMBDA r : r.uri # NoUri),
     not_found_tracks |-> Count(match_results, LAMBDA r : r.reason = "not_found"),
     ambiguous_tracks |-> Count(match_results, LAMBDA r : r.reason = "ambiguous"),
     added_tracks |-> IF dry_run THEN 0 ELSE totals.added + already_added_count,
     duplicate_tracks |-> totals.duplicates,
     failed_tracks |-> totals.errors,
     errors |-> errors]

(* End of _process_matched_tracks: stage = "completed", save, the result. *)
Finish ==
    /\ pc = "writing"
    /\ batch_index >= Len(batches)
    /\ pc' = "idle"
    /\ IF dry_run THEN UNCHANGED store /\ hist' = [hist EXCEPT !.previous = "returned"]
       ELSE /\ store' = save_checkpoint([checkpoint_data EXCEPT !.stage = "completed"])
            /\ hist' = [Saved(hist) EXCEPT !.previous = "returned"]
    /\ result' = TransferResult
    /\ ResetLocals
    /\ UNCHANGED << fixed, target, pb >>

(* The step the running invocation takes next is its last: the save of
   stage "completed" and the return. *)
LastSaveIsNext == ~dry_run /\ pc = "writing" /\ batch_index >= Len(batches)

(* The process dies inside transfer_playlist, between two saves or after
   the last save and before the return: only the checkpoint file and the
   target playlist survive.  (A death before or inside the first save of a
   fresh transfer is CrashBeforeFirstSave or CrashInFirstSave.) *)
Crash ==
    /\ pc \in {"scanning", "matching", "resume_matching", "writing", "in_batch"}
    /\ pc' = "idle"
    /\ \/ UNCHANGED store
       \/ /\ LastSaveIsNext
          /\ store' = save_checkpoint([checkpoint_data EXCEPT !.stage = "completed"])
    /\ result' = [kind |-> "crashed"]
    /\ hist' = Died(hist)
    /\ pb' = IdleBatch
    /\ ResetLocals
    /\ UNCHANGED << fixed, target >>

(* The step the running invocation takes next calls save_checkpoint. *)
SaveIsNext ==
    /\ ~dry_run
    /\ \/ pc = "scanning"
       \/ /\ pc = "matching"
          /\ idx < Len(srcTracks)
          /\ srcTracks[idx + 1] # Raises
          /\ PeriodicSaveDue(idx, dry_run)
       \/ pc \in {"matching", "resume_matching"} /\ idx >= Len(srcTracks)
       \/ pc = "writing"

(* The process dies inside save_checkpoint, killed or leaving through the
   sys.exit(130) of the CLI's signal handler, after open(path, 'w') and
   before json.dump has written the record: the file is left unreadable. *)
CrashInSave ==
    /\ pc \in {"scanning", "matching", "resume_matching", "writing"}
    /\ SaveIsNext
    /\ pc' = "idle"
    /\ store' = TornCheckpoint
    /\ result' = [kind |-> "crashed"]
    /\ hist' = [Died(hist) EXCEPT !.lost = store]
    /\ pb' = IdleBatch
    /\ ResetLocals
    /\ UNCHANGED << fixed, target >>

(* The same inside the first save of _start_fresh_transfer, before the
   scan: the invocation ends with no record of its own on disk. *)
CrashInFirstSave ==
    /\ pc = "idle"
    /\ hist.runs < MaxRuns
    /\ load_checkpoint = NoCheckpoint
    /\ store' = TornCheckpoint
    /\ result' = [kind |-> "crashed"]
    /\ hist' = [Died(Started(FALSE, NoCheckpoint)) EXCEPT !.lost = hist.lost]
    /\ UNCHANGED << fixed, target, pc, locals, pb >>

(* The process dies in _start_fresh_transfer before the open(path, 'w') of
   its first save, after load_checkpoint has found no record: nothing is
   written, and the invocation ends with the checkpoint file as it found
   it, absent or unreadable. *)
CrashBeforeFirstSave ==
    /\ pc = "idle"
    /\ hist.runs < MaxRuns
    /\ load_checkpoint = NoCheckpoint
    /\ result' = [kind |-> "crashed"]
    /\ hist' = [Died(Started(FALSE, NoCheckpoint)) EXCEPT !.lost = hist.lost]
    /\ UNCHANGED << fixed, store, target, pc, locals, pb >>

(* The liked tracks of the source, each with what find_track_candidates and
   find_best_match give for it (a URI of the target, nothing, or an
   exception), and the URIs _migrate_likes collects:
   if match.uri: matched_uris.append(match.uri), a track for which either
   call raises being skipped. *)
LikedOutcomes ==
    {Outcome(u, "isrc_exact") : u \in DOMAIN target}
        \cup {Outcome(NoUri, "not_found"), Raises}

RECURSIVE MatchedLikes(_)
MatchedLikes(liked) ==
    IF Len(liked) = 0 THEN << >>
    ELSE (IF Head(liked) # Raises /\ has_uri(MatchOf(Head(liked)))
          THEN << Head(liked).uri >> ELSE << >>) \o MatchedLikes(Tail(liked))

(* The playlist after target_provider.add_tracks_batch(playlist.id, batch)
   of _migrate_likes, one call for up to 100 URIs: as it was when there is
   no matched URI, with --dry-run or --mode saved, for another playlist and
   when the call raises (the batch is counted as errors); else with the URIs
   the provider added. *)
LikesTargets(liked) ==
    {target} \cup {TargetAfter(MatchedLikes(liked), st) :
                      st \in [1..Len(MatchedLikes(liked)) -> Statuses]}

(* CLI._migrate_likes, the command `likes`, run while no transfer is: it
   matches the liked tracks and, with --mode playlist, passes the matched
   URIs to add_tracks_batch itself, without process_batch and without a
   checkpoint.  It is an invocation of its own: the transfer that follows
   does not follow another transfer. *)
MigrateLikes ==
    /\ pc = "idle"
    /\ hist.runs < MaxRuns
    /\ target' \in UNION {LikesTargets(liked) :
                              liked \in SeqUpTo(LikedOutcomes, MaxLiked)}
    /\ result' = NoResult
    /\ hist' = [NoHist EXCEPT !.runs = hist.runs + 1, !.previous = "likes",
                              !.lost = hist.lost,
                              !.candidateReasons = hist.candidateReasons,
                              !.nearTie = hist.nearTie]
    /\ UNCHANGED << fixed, store, pc, locals, pb >>

InitLocals ==
    /\ dry_run = FALSE
    /\ checkpoint_data = NoCheckpoint
    /\ idx = 0
    /\ matched_uris = << >>
    /\ match_results = << >>
    /\ already_added_count = 0
    /\ batches = << >>
    /\ batch_index = 0
    /\ totals = ZeroTotals
    /\ errors = << >>

Init ==
    /\ srcTracks \in SourceListings
    /\ batch_size = BatchSize
    /\ store = NoCheckpoint
    /\ target = [u \in URIs |-> 0]
    /\ pc = "idle"
    /\ InitLocals
    /\ pb = IdleBatch
    /\ result = NoResult
    /\ hist = NoHist
    /\ fbm = IdleMatch
    /\ snap = IdleSnapshot
    /\ cm = IdleManager
    /\ fmr = IdleRate

InBatch(step) == pc = "in_batch" /\ step

(* The transfers and likes migrations of processes that may die at any
   step. *)
Next ==
    \/ \E dry \in BOOLEAN : StartFresh(dry)
    \/ \E dry \in BOOLEAN : StartResume(dry)
    \/ ScanSource
    \/ MatchTrack
    \/ ResumeMatchTrack
    \/ BeginWriting
    \/ StartBatch
    \/ InBatch(BatchSucceeds)
    \/ InBatch(BatchRateLimited)
    \/ InBatch(BatchFails)
    \/ BatchReturned
    \/ BatchRaised
    \/ Finish
    \/ Crash
    \/ CrashInSave
    \/ CrashBeforeFirstSave
    \/ CrashInFirstSave
    \/ MigrateLikes

Spec == Init /\ [][Next]_vars

(* The transfers and likes migrations of processes that are never killed:
   an invocation, once started, runs on until it returns or raises. *)
RunStep ==
    \/ ScanSource
    \/ MatchTrack
    \/ ResumeMatchTrack
    \/ BeginWriting
    \/ StartBatch
    \/ InBatch(BatchSucceeds)
    \/ InBatch(BatchRateLimited)
    \/ InBatch(BatchFails)
    \/ BatchReturned
    \/ BatchRaised
    \/ Finish

NextRun ==
    \/ \E dry \in BOOLEAN : StartFresh(dry)
    \/ \E dry \in BOOLEAN : StartResume(dry)
    \/ RunStep
    \/ MigrateLikes

SpecRun == Init /\ [][NextRun]_vars /\ WF_vars(RunStep)

-----------------------------------------------------------------------------
(* process_batch on its own: any batch of 1..BatchSize URIs, dry-run or not. *)

InitBatch ==
    /\ srcTracks = << >>
    /\ batch_size = BatchSize
    /\ store = NoCheckpoint
    /\ target = [u \in URIs |-> 0]
    /\ pc = "process_batch"
    /\ InitLocals
    /\ \E uris \in SeqUpTo(URIs, BatchSize) \ {<< >>}, dry \in BOOLEAN :
          pb = EnterProcessBatch(uris, dry)
    /\ result = NoResult
    /\ hist = NoHist
    /\ fbm = IdleMatch
    /\ snap = IdleSnapshot
    /\ cm = IdleManager
    /\ fmr = IdleRate

NextBatch == ProcessBatchStep

SpecBatch == InitBatch /\ [][NextBatch]_vars

(* process_batch with a target that may answer RateLimited without end.
   Past MaxRateLimited answers the frame stops counting: pb.calls stays,
   and pb.rateLimited only tells an odd number of further answers from an
   even one.  attempt, the one counter of the code, is left alone as in
   BatchRateLimited. *)
BatchRateLimitedAgain ==
    /\ pb.state = "running"
    /\ pb.attempt <= MaxRetries
    /\ pb.rateLimited >= MaxRateLimited
    /\ \E ms \in RetryAfterMs :
          pb' = [pb EXCEPT !.lastAnswer = "RateLimited", !.lastUris = pb.uris,
                     !.lastRetryAfterMs = ms,
                     !.lastSleep = RateLimitSleep(ms),
                     !.rateLimited = IF @ = MaxRateLimited THEN MaxRateLimited + 1
                                     ELSE MaxRateLimited]
    /\ hist' = NoteSubmitted
    /\ UNCHANGED << fixed, store, target, pc, locals, result >>

NextBatchLive == ProcessBatchStep \/ BatchRateLimitedAgain

(* The while loop runs on as long as it has not returned or raised. *)
SpecBatchLive == InitBatch /\ [][NextBatchLive]_vars /\ WF_vars(NextBatchLive)

-----------------------------------------------------------------------------
(* split_into_batches on its own: any list of up to MaxSplitLen URIs, any
   batch_size from 1 to MaxSplitBatch. *)

InitSplit ==
    /\ srcTracks = << >>
    /\ batch_size \in 1..MaxSplitBatch
    /\ store = NoCheckpoint
    /\ target = [u \in URIs |-> 0]
    /\ pc = "split_into_batches"
    /\ dry_run = FALSE
    /\ checkpoint_data = NoCheckpoint
    /\ idx = 0
    /\ matched_uris \in SeqUpTo(URIs, MaxSplitLen)
    /\ match_results = << >>
    /\ already_added_count = 0
    /\ batches = << >>
    /\ batch_index = 0
    /\ totals = ZeroTotals
    /\ errors = << >>
    /\ pb = IdleBatch
    /\ result = NoResult
    /\ hist = NoHist
    /\ fbm = IdleMatch
    /\ snap = IdleSnapshot
    /\ cm = IdleManager
    /\ fmr = IdleRate

(* batches = self.batch_processor.split_into_batches(matched_uris) *)
Split ==
    /\ pc = "split_into_batches"
    /\ pc' = "split_done"
    /\ batches' = split_into_batches(matched_uris)
    /\ UNCHANGED << fixed, store, target, dry_run, checkpoint_data, idx,
                    matched_uris, match_results, already_added_count,
                    batch_index, totals, errors, pb, result, hist >>

NextSplit == Split

SpecSplit == InitSplit /\ [][NextSplit]_vars

-----------------------------------------------------------------------------
(* find_best_match: any risk mode, a source track and a list of up to
   MaxCandidates candidates; and, once it has returned, the transfers of a
   playlist that holds this one track, for which the pipeline gets this
   result from the matcher. *)

(* Source tracks: artists that share the token "x" with candidates; artists
   that leave no token, with a bracketed title and an empty album; no
   artists at all. *)
SourceTracks ==
    {[title |-> {"Song"}, artists |-> <<"The X Files">>, album |-> {"A"}],
     [title |-> {"Song (Live)"}, artists |-> <<"Live", "7">>, album |-> {""}],
     [title |-> {"Song"}, artists |-> << >>, album |-> NoText]}

(* title, artists and album of a candidate: none; the source's title, in
   capitals or with an accent, and artist with its album or another;
   another title with an artist of the source among others. *)
CandidateMetadata ==
    {[title |-> NoText, artists |-> << >>, album |-> NoText],
     [title |-> {"SONG"}, artists |-> <<"X">>, album |-> {"A"}],
     [title |-> {"Sóng"}, artists |-> <<"X">>, album |-> {"B"}],
     [title |-> {"Other"}, artists |-> <<"Live", "X">>, album |-> {"A"}]}

(* reason and confidence as the provider gives them: 1.0 with isrc_exact *)
CandidateScores ==
    {[reason |-> "isrc_exact", confidence |-> 100],
     [reason |-> "fuzzy_match", confidence |-> 82],
     [reason |-> "fuzzy_match", confidence |-> 70]}

CandidateRanks == {{}, {0}, {1}}

CandidateUri(k) == "c" \o ToString(k)

(* Candidate.reason is any str: a candidate that comes with the reason
   'ambiguous', without metadata or rank. *)
AmbiguousCandidate(k) ==
    [uri |-> CandidateUri(k), confidence |-> 90, reason |-> "ambiguous",
     title |-> NoText, artists |-> << >>, album |-> NoText, rank |-> {}]

CandidatesAt(k) ==
    {[uri |-> CandidateUri(k), confidence |-> sc.confidence, reason |-> sc.reason,
      title |-> md.title, artists |-> md.artists, album |-> md.album, rank |-> rk] :
        md \in CandidateMetadata, sc \in CandidateScores, rk \in CandidateRanks}
        \cup {AmbiguousCandidate(k)}

RECURSIVE CandidateLists(_)
CandidateLists(n) ==
    IF n = 0 THEN {<< >>}
    ELSE CandidateLists(n - 1) \cup
         {Append(cs, c) : cs \in {l \in CandidateLists(n - 1) : Len(l) = n - 1},
                          c \in CandidatesAt(n)}

InitMatch ==
    /\ srcTracks = << >>
    /\ batch_size = BatchSize
    /\ store = NoCheckpoint
    /\ target = [u \in {CandidateUri(k) : k \in 1..MaxCandidates} |-> 0]
    /\ pc = "find_best_match"
    /\ InitLocals
    /\ pb = IdleBatch
    /\ result = NoResult
    /\ hist = NoHist
    /\ \E mode \in RiskModes, track \in SourceTracks,
          cands \in CandidateLists(MaxCandidates) :
          fbm = [IdleMatch EXCEPT !.risk_mode = mode, !.source_track = track,
                                  !.candidates = cands]
    /\ snap = IdleSnapshot
    /\ cm = IdleManager
    /\ fmr = IdleRate

(* find_best_match(source_track, candidates) under MUSYNC_RISK_MODE *)
FindBestMatch ==
    /\ pc = "find_best_match"
    /\ pc' = "match_returned"
    /\ fbm' = [fbm EXCEPT
                  !.selected = IF fbm.candidates = << >> THEN NoCandidate
                               ELSE selected_candidate(fbm.source_track, fbm.candidates),
                  !.result = find_best_match(fbm.risk_mode, fbm.source_track,
                                             fbm.candidates)]
    /\ UNCHANGED << srcTracks, batch_size, store, target, locals, pb, result, hist,
                    snap, cm, fmr >>

(* match_result = self.matcher.find_best_match(source_track, candidates) in
   the matching loop of a transfer: the playlist holds the source track of
   the call, and what the matcher gives the pipeline for it is the result
   that call returned.  The frame of the call is gone; the transfers keep
   which reasons its candidates carried and whether two of them were within
   ambiguous_threshold of each other. *)
ListMatchedTrack ==
    /\ pc = "match_returned"
    /\ pc' = "idle"
    /\ srcTracks' = << Outcome(fbm.result.uri, fbm.result.reason) >>
    /\ hist' = [hist EXCEPT
                   !.candidateReasons =
                       {fbm.candidates[k].reason : k \in 1..Len(fbm.candidates)},
                   !.nearTie = NearTie(fbm.candidates)]
    /\ fbm' = IdleMatch
    /\ UNCHANGED << batch_size, store, target, locals, pb, result, snap, cm, fmr >>

NextMatch ==
    \/ FindBestMatch
    \/ ListMatchedTrack
    \/ Next

SpecMatch == InitMatch /\ [][NextMatch]_vars

-----------------------------------------------------------------------------
(* calculate_snapshot_hash on its own: up to MaxSnapshot tracks, and the
   same tracks in another order. *)

SnapshotTracks ==
    {[isrc |-> {"US-RC1"}, title |-> {"Song"}, artists |-> <<"X">>, duration_ms |-> 2000],
     [isrc |-> {"USRC1"}, title |-> {"Song"}, artists |-> <<"X">>, duration_ms |-> 2000],
     [isrc |-> NoText, title |-> {"Song"}, artists |-> <<"X">>, duration_ms |-> 1000],
     [isrc |-> NoText, title |-> {"Sóng"}, artists |-> <<"X">>, duration_ms |-> 3000],
     [isrc |-> NoText, title |-> {"Other"}, artists |-> <<"Y", "X">>, duration_ms |-> 2200]}

Orderings(tracks) ==
    {[k \in 1..Len(tracks) |-> tracks[p[k]]] :
        p \in {q \in [1..Len(tracks) -> 1..Len(tracks)] :
                  \A i, j \in 1..Len(tracks) : q[i] = q[j] => i = j}}

InitHash ==
    /\ srcTracks = << >>
    /\ batch_size = BatchSize
    /\ store = NoCheckpoint
    /\ target = [u \in URIs |-> 0]
    /\ pc = "calculate_snapshot_hash"
    /\ InitLocals
    /\ pb = IdleBatch
    /\ result = NoResult
    /\ hist = NoHist
    /\ fbm = IdleMatch
    /\ \E tracks \in SeqUpTo(SnapshotTracks, MaxSnapshot) :
          \E reordered \in Orderings(tracks) :
             snap = [IdleSnapshot EXCEPT !.tracks = tracks, !.reordered = reordered]
    /\ cm = IdleManager
    /\ fmr = IdleRate

(* calculate_snapshot_hash(tracks) and calculate_snapshot_hash(reordered) *)
CalculateSnapshotHash ==
    /\ pc = "calculate_snapshot_hash"
    /\ pc' = "hash_returned"
    /\ snap' = [snap EXCEPT !.digest = calculate_snapshot_hash(snap.tracks),
                            !.digestReordered = calculate_snapshot_hash(snap.reordered)]
    /\ UNCHANGED << srcTracks, batch_size, store, target, locals, pb, result, hist,
                    fbm, cm, fmr >>

NextHash == CalculateSnapshotHash

SpecHash == InitHash /\ [][NextHash]_vars

-----------------------------------------------------------------------------
(* CheckpointManager on its own: saves, deletes, loads and listings for the
   pairs of JobIds and PlaylistIds, in any order.  cm.saved remembers, for
   every pair, the record of its last save unless a delete followed, and
   cm.touched the pairs that were saved or deleted. *)

InitStore ==
    /\ srcTracks = << >>
    /\ batch_size = BatchSize
    /\ store = NoCheckpoint
    /\ target = [u \in URIs |-> 0]
    /\ pc = "checkpoint_manager"
    /\ InitLocals
    /\ pb = IdleBatch
    /\ result = NoResult
    /\ hist = NoHist
    /\ fbm = IdleMatch
    /\ snap = IdleSnapshot
    /\ cm = IdleManager
    /\ fmr = IdleRate

StoreFrame ==
    UNCHANGED << srcTracks, batch_size, store, target, pc, locals, pb, result, hist,
                 fbm, snap, fmr >>

SaveCheckpoint(job_id, playlist_id, data) ==
    /\ pc = "checkpoint_manager"
    /\ cm' = [cm EXCEPT !.files = written(@, job_id, playlist_id, data),
                        !.op = "save_checkpoint",
                        !.job_id = job_id, !.playlist_id = playlist_id,
                        !.returned = None,
                        !.saved[<<job_id, playlist_id>>] = data,
                        !.touched = @ \cup {<<job_id, playlist_id>>}]
    /\ StoreFrame

DeleteCheckpoint(job_id, playlist_id) ==
    /\ pc = "checkpoint_manager"
    /\ cm' = [cm EXCEPT !.files = removed(@, job_id, playlist_id),
                        !.op = "delete_checkpoint",
                        !.job_id = job_id, !.playlist_id = playlist_id,
                        !.returned = None,
                        !.saved[<<job_id, playlist_id>>] = NoRecord,
                        !.touched = @ \cup {<<job_id, playlist_id>>}]
    /\ StoreFrame

LoadCheckpoint(job_id, playlist_id) ==
    /\ pc = "checkpoint_manager"
    /\ cm' = [cm EXCEPT !.op = "load_checkpoint",
                        !.job_id = job_id, !.playlist_id = playlist_id,
                        !.returned = loaded(cm.files, job_id, playlist_id)]
    /\ StoreFrame

(* list_checkpoints_for_job: the records of the matching files, in the order
   os.listdir gives the names, which is arbitrary *)
ListCheckpointsForJob(job_id) ==
    /\ pc = "checkpoint_manager"
    /\ \E names \in SeqUpTo(listed_names(cm.files, job_id), Cardinality(Filenames)) :
          /\ Len(names) = Cardinality(listed_names(cm.files, job_id))
          /\ Range(names) = listed_names(cm.files, job_id)
          /\ cm' = [cm EXCEPT !.op = "list_checkpoints_for_job",
                              !.job_id = job_id, !.playlist_id = "",
                              !.returned = PyList([k \in 1..Len(names) |->
                                                     json_load(cm.files[names[k]])])]
    /\ StoreFrame

NextStore ==
    \/ \E pair \in Pairs : \E data \in CheckpointRecords(pair[1], pair[2]) :
          SaveCheckpoint(pair[1], pair[2], data)
    \/ \E pair \in Pairs : DeleteCheckpoint(pair[1], pair[2])
    \/ \E pair \in Pairs : LoadCheckpoint(pair[1], pair[2])
    \/ \E job_id \in JobIds : ListCheckpointsForJob(job_id)

SpecStore == InitStore /\ [][NextStore]_vars

-----------------------------------------------------------------------------
(* calculate_false_match_rate on its own: up to MaxResults results, each
   with a URI or none, and up to MaxResults expected URIs, each a URI or
   None; the two lists need not have the same length. *)

InitRate ==
    /\ srcTracks = << >>
    /\ batch_size = BatchSize
    /\ store = NoCheckpoint
    /\ target = [u \in URIs |-> 0]
    /\ pc = "calculate_false_match_rate"
    /\ InitLocals
    /\ pb = IdleBatch
    /\ result = NoResult
    /\ hist = NoHist
    /\ fbm = IdleMatch
    /\ snap = IdleSnapshot
    /\ cm = IdleManager
    /\ \E results \in SeqUpTo(URIs \cup {NoUri}, MaxResults) :
          \E expected_uris \in SeqUpTo(URIs \cup {NoUri}, MaxResults) :
             fmr = [IdleRate EXCEPT !.results = results, !.expected_uris = expected_uris]

CalculateFalseMatchRate ==
    /\ pc = "calculate_false_match_rate"
    /\ pc' = "rate_returned"
    /\ fmr' = [fmr EXCEPT
                  !.returned = calculate_false_match_rate(fmr.results, fmr.expected_uris)]
    /\ UNCHANGED << srcTracks, batch_size, store, target, locals, pb, result, hist,
                    fbm, snap, cm >>

NextRate == CalculateFalseMatchRate

SpecRate == InitRate /\ [][NextRate]_vars

-----------------------------------------------------------------------------
(* Properties of transfer_playlist, checked under Spec *)

(* C1: an invocation that found a checkpoint passes no URI of that
   checkpoint's addedUris to add_tracks_batch. *)
C1_ResumeSkipsAdded ==
    hist.resumed => hist.submitted \cap Range(hist.loadedAdded) = {}

(* A resumed run is writing, and a track of the re-matched tail matches a
   URI of the loaded addedUris. *)
C1_Witness ==
    /\ hist.resumed
    /\ ~dry_run
    /\ pc = "in_batch"
    /\ hist.submitted # {}
    /\ \E k \in (checkpoint_data.trackIndex + 1)..Len(srcTracks) :
          srcTracks[k].uri \in Range(hist.loadedAdded)

(* C2: after a crash of a transfer, the next invocation with the same job id
   submits no URI that the target had already added. *)
C2_NoResubmissionAfterCrash ==
    (pc # "idle" /\ hist.previous = "crashed") =>
        hist.submitted \cap hist.acceptedBefore = {}

(* C3: a dry run, fresh or resumed, calls neither add_tracks_batch nor
   save_checkpoint: store and target stay as it found them. *)
C3_DryRunWritesNothing ==
    hist.dry =>
        /\ hist.saves = 0
        /\ hist.submitted = {}
        /\ hist.called = {}
        /\ pb.state # "running"
        /\ store = hist.storeBeforeDry
        /\ target = hist.targetBeforeDry

(* A dry run that resumed from a checkpoint has returned, with matches. *)
C3_Witness ==
    /\ hist.dry
    /\ hist.resumed
    /\ result.kind = "TransferResult"
    /\ result.matched_tracks > 0
    /\ hist.batchCount > 0

(* C4: no exception of find_track_candidates or find_best_match leaves
   transfer_playlist, fresh or resumed. *)
C4_MatchErrorsAbsorbed == result.kind # "exception"

RECURSIVE SumSizes(_)
SumSizes(r) == IF Len(r) = 0 THEN 0 ELSE r[1].size + SumSizes(Tail(r))

Indexes(r) == [k \in 1..Len(r) |-> r[k].index]

(* C5: a batch for which process_batch raised gets exactly one error
   message, its size is added to failed_tracks, and add_tracks_batch is
   still called for every later batch. *)
C5_FailedBatchIsCountedAndSkipped ==
    /\ pc = "writing" =>
          /\ errors = Indexes(hist.raised)
          /\ totals.errors = SumSizes(hist.raised) + hist.answeredErrors
    /\ (result.kind = "TransferResult" /\ ~hist.dry) =>
          /\ result.errors = Indexes(hist.raised)
          /\ result.failed_tracks = SumSizes(hist.raised) + hist.answeredErrors
          /\ hist.called = 0..(hist.batchCount - 1)

(* The first of two batches failed and the transfer returned. *)
C5_Witness ==
    /\ result.kind = "TransferResult"
    /\ ~hist.dry
    /\ hist.batchCount >= 2
    /\ Len(result.errors) >= 1
    /\ result.errors[1] = 0
    /\ result.failed_tracks >= BatchSize

(* The file holds a record. *)
Readable(file) == file \notin {NoCheckpoint, TornCheckpoint}

(* The record of the latest save that returned. *)
LastPersisted == IF store = TornCheckpoint THEN hist.lost ELSE store

(* C10: once a checkpoint with stage "completed" is persisted, every later
   save persists stage "completed". *)
C10_CompletedIsTerminal ==
    [][(store.stage = "completed" /\ store' # TornCheckpoint)
          => store'.stage = "completed"]_vars

(* C11: over the whole history of saves of one job, the resume included,
   the persisted batchIndex never decreases. *)
C11_BatchIndexNeverDecreases ==
    [][(Readable(store) /\ Readable(store')) =>
          store'.batchIndex >= store.batchIndex]_vars

IsPrefix(a, b) == Len(a) <= Len(b) /\ Prefix(b, Len(a)) = a

(* C12: every persisted addedUris extends the one persisted before it, and
   the persisted cursor trackIndex never decreases. *)
C12_AddedUrisAndCursorGrow ==
    [][(Readable(LastPersisted) /\ Readable(store')) =>
          /\ IsPrefix(LastPersisted.addedUris, store'.addedUris)
          /\ store'.trackIndex >= LastPersisted.trackIndex]_vars

StageRank(stage) ==
    CASE stage = "scanning" -> 1 [] stage = "matching" -> 2
      [] stage = "writing" -> 3 [] stage = "completed" -> 4

(* C13: in a fresh transfer without dry-run the stages of the saves are, in
   order, scanning once, matching one or more times, writing one or more
   times, completed once: none skipped, none revisited. *)
C13_StagesInOrder ==
    (/\ ~hist.resumed /\ ~hist.dry /\ hist.runs > 0
     /\ ~(pc = "idle" /\ hist.previous \in {"crashed", "likes"})) =>
        LET st == hist.stages IN
        /\ Len(st) >= 1 /\ st[1] = "scanning"
        /\ \A k \in 1..(Len(st) - 1) :
              /\ StageRank(st[k + 1]) - StageRank(st[k]) \in {0, 1}
              /\ st[k + 1] # "scanning"
              /\ st[k] # "completed"
        /\ (pc = "idle" /\ hist.previous = "returned") =>
              /\ st[Len(st)] = "completed"
              /\ Len(st) = hist.saves

(* A fresh transfer returned after a periodic matching save and a batch. *)
C13_Witness ==
    /\ ~hist.resumed /\ ~hist.dry
    /\ pc = "idle" /\ hist.previous = "returned"
    /\ Count(hist.stages, LAMBDA x : x = "matching") >= 2
    /\ Count(hist.stages, LAMBDA x : x = "writing") >= 2

MatchedUrisOf(tracks) ==
    LET hits == SelectSeq(tracks, LAMBDA outcome : outcome.uri # NoUri)
    IN  [k \in 1..Len(hits) |-> hits[k].uri]

RECURSIVE Concat(_)
Concat(ss) == IF Len(ss) = 0 THEN << >> ELSE Head(ss) \o Concat(Tail(ss))

BatchesCalled == [k \in 1..Len(hist.batchesCalled) |-> hist.batchesCalled[k].uris]

(* C14: in a fresh transfer the batches are first passed to add_tracks_batch
   in ascending batch-index order, only the batch of the running iteration
   is ever in a call, and the batches passed, concatenated, are the URIs of
   the matched source tracks in the order of the source listing. *)
C14_BatchesInSourceOrder ==
    (~hist.resumed /\ ~hist.dry /\ hist.runs > 0) =>
        /\ \A k \in 1..Len(hist.batchesCalled) : hist.batchesCalled[k].index = k - 1
        /\ pb.state = "running" =>
              /\ batch_index = Len(hist.batchesCalled) - 1 \/ pb.calls = 0
              /\ pb.uris = batches[batch_index + 1]
        /\ IsPrefix(Concat(BatchesCalled), MatchedUrisOf(srcTracks))
        /\ (pc = "idle" /\ hist.previous = "returned") =>
              Concat(BatchesCalled) = MatchedUrisOf(srcTracks)

(* A fresh transfer returned after two batches, from a listing whose matched
   tracks carry both URIs. *)
C14_Witness ==
    /\ ~hist.resumed /\ ~hist.dry
    /\ pc = "idle" /\ hist.previous = "returned"
    /\ Len(hist.batchesCalled) >= 2
    /\ Range(MatchedUrisOf(srcTracks)) = URIs

(* C15: a resumed transfer without dry-run reports as added_tracks the
   number of URIs in the addedUris it loaded plus the sum of the added
   counts of the AddResults returned during the resume. *)
C15_ResumedAddedTracks ==
    (result.kind = "TransferResult" /\ hist.resumed /\ ~hist.dry) =>
        result.added_tracks = Len(hist.loadedAdded) + hist.answeredAdded

(* A resumed transfer returned: it had loaded added URIs and added more. *)
C15_Witness ==
    /\ result.kind = "TransferResult" /\ hist.resumed /\ ~hist.dry
    /\ Len(hist.loadedAdded) > 0
    /\ hist.answeredAdded > 0

(* C16: a fresh dry run reports added_tracks = 0, and the fresh run without
   dry-run that follows it on the same inputs reports the same total_tracks,
   matched_tracks and not_found_tracks. *)
C16_DryRunReportsSameCounts ==
    /\ (result.kind = "TransferResult" /\ hist.dry) => result.added_tracks = 0
    /\ (/\ result.kind = "TransferResult" /\ ~hist.dry /\ ~hist.resumed
        /\ hist.before.kind = "fresh_dry_run") =>
          /\ hist.before.added_tracks = 0
          /\ hist.before.total_tracks = result.total_tracks
          /\ hist.before.matched_tracks = result.matched_tracks
          /\ hist.before.not_found_tracks = result.not_found_tracks

(* A fresh dry run and then a fresh run without dry-run returned, on a
   listing with matched and unmatched tracks; the second one added tracks. *)
C16_Witness ==
    /\ result.kind = "TransferResult" /\ ~hist.dry /\ ~hist.resumed
    /\ hist.before.kind = "fresh_dry_run"
    /\ result.matched_tracks > 0
    /\ result.not_found_tracks > 0
    /\ result.added_tracks > 0

(* C17: after a transfer without dry-run that returned with no failed
   batch, a further call with the same job id and inputs adds no track to
   the target playlist and reports the added_tracks the first one reported. *)
C17_RepeatIsIdempotent ==
    (hist.before.kind = "nothing_failed" /\ ~hist.dry) =>
        /\ TargetSize = hist.before.targetSize
        /\ (pc = "idle" /\ hist.previous \in {"returned", "raised"}) =>
              /\ result.kind = "TransferResult"
              /\ result.added_tracks = hist.before.added_tracks

(* C25: when a fresh transfer without dry-run crashed and the resume after
   it returned without a failed batch, every source track matched to a URI
   has the URI in the checkpoint's addedUris, or submitted to
   add_tracks_batch by the resume, or in the target playlist already. *)
C25_ResumeLeavesNoMatchUnwritten ==
    (/\ result.kind = "TransferResult"
     /\ hist.resumed /\ ~hist.dry
     /\ hist.before.kind = "fresh_crashed"
     /\ hist.raised = << >>)
        => \A k \in 1..Len(srcTracks) :
              srcTracks[k].uri \in URIs
                  => srcTracks[k].uri \in Range(store.addedUris) \cup hist.submitted
                                       \cup hist.acceptedBefore

(* C26: every URI in the addedUris of the persisted checkpoint is one the
   target added in a call of add_tracks_batch that returned. *)
C26_AddedUrisWereAdded ==
    Readable(store) => \A u \in Range(store.addedUris) : target[u] > 0

(* C28: in every TransferResult matched_tracks + not_found_tracks +
   ambiguous_tracks is at most total_tracks, the number of tracks of the
   source playlist. *)
C28_OutcomeCountsWithinTotal ==
    result.kind = "TransferResult" =>
        result.matched_tracks + result.not_found_tracks + result.ambiguous_tracks
            <= result.total_tracks

(* C29: a transfer without dry-run reports added_tracks + duplicate_tracks
   + failed_tracks equal to the number of URIs it split into batches plus
   the number of addedUris it loaded from the checkpoint (none on a fresh
   start), whichever batches failed.  Every AddResult of the model has
   added + duplicates + errors = size of the batch. *)
C29_WrittenCountsAddUp ==
    (result.kind = "TransferResult" /\ ~hist.dry) =>
        result.added_tracks + result.duplicate_tracks + result.failed_tracks
            = hist.splitUris + Len(hist.loadedAdded)

(* A resumed transfer returned after a failed batch of two URIs, having
   loaded added URIs from the checkpoint. *)
C29_Witness ==
    /\ result.kind = "TransferResult" /\ ~hist.dry /\ hist.resumed
    /\ Len(hist.loadedAdded) > 0
    /\ hist.raised # << >>
    /\ result.failed_tracks = 2
    /\ hist.splitUris = 2

(* C32: while a fresh transfer without dry-run is matching, the persisted
   cursor is the largest multiple of 10 not above the number of tracks
   processed, whatever the outcome of the matching of each track: the save
   for 10*k is made before track 10*k + 1 is matched, and the cursor never
   exceeds the number of tracks processed. *)
C32_CursorSavedEveryTenTracks ==
    (pc = "matching" /\ ~dry_run) =>
        store.trackIndex = CheckpointEvery * (idx \div CheckpointEvery)

-----------------------------------------------------------------------------
(* Progress of transfer_playlist, checked under SpecRun *)

(* C31: every invocation without dry-run eventually persists a checkpoint
   with stage 'completed' and returns a TransferResult, whatever batches
   fail; every RateLimited answer of the model is one of finitely many. *)
C31_NonDryRunCompletes ==
    \A r \in 1..MaxRuns :
        (hist.runs = r /\ pc # "idle" /\ ~dry_run)
            ~> (/\ hist.runs = r /\ pc = "idle"
                /\ result.kind = "TransferResult"
                /\ store.stage = "completed")

-----------------------------------------------------------------------------
(* Properties of process_batch, checked under SpecBatch *)

NonRateLimitedCalls == pb.calls - pb.rateLimited

(* C6: without dry-run, process_batch never makes more than max_retries + 1
   calls that are not answered with RateLimited, and when all of them fail it
   raises TemporaryFailure after exactly max_retries + 1 such calls. *)
C6_RetryBudget ==
    /\ NonRateLimitedCalls <= MaxRetries + 1
    /\ pb.state = "raised" <=> pb.failures = MaxRetries + 1
    /\ pb.state = "raised" =>
          /\ pb.error = "TemporaryFailure"
          /\ NonRateLimitedCalls = MaxRetries + 1
    /\ (pb.state = "running" /\ pb.failures = NonRateLimitedCalls) =>
          NonRateLimitedCalls <= MaxRetries

C6_Witness ==
    /\ pb.state = "raised"
    /\ pb.failures = MaxRetries + 1
    /\ pb.calls = MaxRetries + 1

(* C7: a RateLimited answer makes process_batch sleep retry_after_ms / 1000
   seconds and go on to call again with the same URIs, and it consumes no
   retry budget: the attempt counter counts the failures only, so the batch
   is given up after max_retries + 1 failures however many RateLimited
   answers came in between. *)
C7_RateLimitedIsFree ==
    /\ pb.lastAnswer = "RateLimited" =>
          /\ pb.state = "running"
          /\ pb.lastUris = pb.uris
          /\ pb.lastSleep.num * 1000 = pb.lastRetryAfterMs * pb.lastSleep.den
    /\ pb.attempt = pb.failures
    /\ pb.state = "running" => pb.failures <= MaxRetries
    /\ pb.state = "raised" => pb.failures = MaxRetries + 1

C7_Witness ==
    /\ pb.state = "raised"
    /\ pb.rateLimited >= 1
    /\ pb.failures = MaxRetries + 1

(* C8: the k-th failure of a batch, 1 <= k <= max_retries, is followed by a
   sleep of exactly 2^(k-1) seconds and another call; the failure that
   exhausts the budget is followed by no sleep. *)
C8_ExponentialBackoff ==
    pb.lastAnswer \in Failures =>
        IF pb.failures <= MaxRetries
        THEN /\ pb.state = "running"
             /\ SameDuration(pb.lastSleep, Seconds(2 ^ (pb.failures - 1), 1))
        ELSE /\ pb.state = "raised"
             /\ pb.lastSleep = NoSleep

C8_Witness ==
    /\ pb.lastAnswer \in Failures
    /\ pb.failures = MaxRetries
    /\ pb.lastSleep = Seconds(4, 1)
    /\ pb.rateLimited >= 1

(* C9: when add_tracks_batch raises PermanentFailure for a batch, the
   failure surfaces at once: process_batch is over, without a back-off sleep
   and so without another call for that batch. *)
C9_PermanentFailureNotRetried ==
    pb.lastAnswer = "PermanentFailure" =>
        /\ pb.state = "raised"
        /\ pb.lastSleep = NoSleep

-----------------------------------------------------------------------------
(* Properties of split_into_batches, checked under SpecSplit *)

(* C18: for any list and any batch_size >= 1 the batches, concatenated in
   order, are the input list; every batch but the last has exactly
   batch_size elements, the last has between 1 and batch_size; the empty
   list gives no batch. *)
C18_SplitIsAPartition ==
    pc = "split_done" =>
        /\ Concat(batches) = matched_uris
        /\ \A k \in 1..(Len(batches) - 1) : Len(batches[k]) = batch_size
        /\ Len(batches) > 0 => Len(batches[Len(batches)]) \in 1..batch_size
        /\ matched_uris = << >> => batches = << >>

(* Seven URIs split with batch_size 3: batches of 3, 3 and 1. *)
C18_Witness ==
    /\ pc = "split_done"
    /\ Len(matched_uris) = 7
    /\ batch_size = 3
    /\ Len(batches) = 3
    /\ Len(batches[3]) = 1

-----------------------------------------------------------------------------
(* Properties of find_best_match, checked under SpecMatch *)

(* C19: find_best_match returns no URI with a confidence below the floor of
   the risk mode, 0.85 (fuzzy_threshold) in 'strict', 0.80 in 'balanced',
   none in another mode; when the selected candidate is below the floor the
   result is uri None, confidence 0, reason not_found. *)
C19_FloorOfRiskMode ==
    (pc = "match_returned" /\ fbm.candidates # << >>) =>
        LET floor == IF fbm.risk_mode = "strict" THEN 85
                     ELSE IF fbm.risk_mode = "balanced" THEN 80 ELSE 0
        IN  /\ fbm.result.uri # NoUri => fbm.result.confidence >= floor
            /\ fbm.selected.confidence < floor =>
                  fbm.result = [uri |-> NoUri, confidence |-> 0, reason |-> "not_found"]
            /\ fbm.selected.confidence >= floor =>
                  /\ fbm.result.uri = fbm.selected.uri
                  /\ fbm.result.confidence = fbm.selected.confidence

(* In 'balanced' mode a candidate of confidence 0.82 was returned from a
   list that also holds one below 0.80. *)
C19_Witness ==
    /\ pc = "match_returned"
    /\ fbm.risk_mode = "balanced"
    /\ fbm.result.uri # NoUri
    /\ fbm.result.confidence = 82
    /\ \E k \in 1..Len(fbm.candidates) : fbm.candidates[k].confidence < 80

(* C20: when the candidate list holds a candidate with reason isrc_exact,
   the MatchResult returned has confidence 1.0. *)
C20_IsrcExactGivesFullConfidence ==
    (/\ pc = "match_returned"
     /\ \E k \in 1..Len(fbm.candidates) : fbm.candidates[k].reason = "isrc_exact") =>
        fbm.result.confidence = 100

(* C21: for every source track and risk mode, find_best_match with an empty
   candidate list returns uri None, confidence 0.0, reason not_found. *)
C21_EmptyListIsNotFound ==
    (pc = "match_returned" /\ fbm.candidates = << >>) =>
        /\ fbm.result.uri = NoUri
        /\ fbm.result.confidence = 0
        /\ fbm.result.reason = "not_found"

(* find_best_match returned for an empty list in a mode without a floor. *)
C21_Witness ==
    /\ pc = "match_returned"
    /\ fbm.candidates = << >>
    /\ fbm.risk_mode = "aggressive"
    /\ fbm.source_track.album = NoText

(* C27: the floor is applied to the candidate chosen by the ranking and to
   no other: when the chosen candidate is below the floor of the risk mode
   the result is uri None, confidence 0, reason not_found, whatever the
   confidences of the other candidates; otherwise the result is the chosen
   candidate. *)
C27_FloorGatesTheSelectedOnly ==
    (pc = "match_returned" /\ fbm.candidates # << >>) =>
        IF fbm.selected.confidence < min_conf(fbm.risk_mode)
        THEN /\ fbm.result.uri = NoUri
             /\ fbm.result.confidence = 0
             /\ fbm.result.reason = "not_found"
        ELSE /\ fbm.result.uri = fbm.selected.uri
             /\ fbm.result.reason = fbm.selected.reason

(* The ranking chose a candidate below the floor of 'strict' although the
   list holds one at or above it, and find_best_match returned not_found. *)
C27_Witness ==
    /\ pc = "match_returned"
    /\ fbm.risk_mode = "strict"
    /\ fbm.selected.confidence < FuzzyThreshold
    /\ \E k \in 1..Len(fbm.candidates) : fbm.candidates[k].confidence >= FuzzyThreshold
    /\ fbm.result.uri = NoUri

(* The pools as the selection rules name them: title equality and a shared
   artist token; the artist-overlap test alone. *)
SharesToken(source_track, c) ==
    tokenize_artist_names(source_track.artists) \cap tokenize_artist_names(c.artists) # {}

InFullTextPool(source_track, c) ==
    /\ normalize(or_empty(c.title)) = normalize(or_empty(source_track.title))
    /\ SharesToken(source_track, c)

PassesArtistOverlap(source_track, c) ==
    LET source_tokens == tokenize_artist_names(source_track.artists)
        candidate_tokens == tokenize_artist_names(c.artists)
    IN  IF source_tokens # {}
        THEN source_tokens \cap candidate_tokens # {}
        ELSE candidate_tokens # {}

(* C33: when a candidate has the source's normalized title and shares an
   artist token with it, the candidate selected before gating is such a
   candidate; when there is none, and some candidate passes the
   artist-overlap test, the selected candidate passes it, a source without
   artist tokens being matched by any candidate that has artist tokens. *)
C33_MetadataPoolsComeFirst ==
    (pc = "match_returned" /\ fbm.candidates # << >>) =>
        LET among(P(_)) == \E k \in 1..Len(fbm.candidates) : P(fbm.candidates[k])
            fullText(c) == InFullTextPool(fbm.source_track, c)
            overlap(c) == PassesArtistOverlap(fbm.source_track, c)
        IN  IF among(fullText) THEN fullText(fbm.selected)
            ELSE among(overlap) => overlap(fbm.selected)

(* The pool left after the metadata and album filters; empty when the
   metadata rules are not applied. *)
RankedPool ==
    IF truthy(fbm.source_track.title) /\ fbm.source_track.artists # << >>
    THEN album_tie_break(fbm.source_track,
                         metadata_pool(fbm.source_track, fbm.candidates))
    ELSE << >>

(* C34: within the pool left after the metadata and album filters the
   selected candidate has minimal rank, a candidate without a rank coming
   after every ranked one, and the highest confidence of its rank. *)
C34_LeastRankThenConfidence ==
    pc = "match_returned" =>
        LET pool == RankedPool IN
        pool # << >> =>
            /\ fbm.selected \in Range(pool)
            /\ \A c \in Range(pool) :
                  /\ fbm.selected.rank = {} => c.rank = {}
                  /\ \A r \in c.rank, chosen \in fbm.selected.rank : chosen <= r
                  /\ c.rank = fbm.selected.rank => fbm.selected.confidence >= c.confidence

(* A candidate of rank 1 was selected from a pool that holds a candidate
   without a rank and of higher confidence. *)
C34_Witness ==
    /\ pc = "match_returned"
    /\ fbm.selected \in Range(RankedPool)
    /\ fbm.selected.rank = {1}
    /\ \E c \in Range(RankedPool) :
          c.rank = {} /\ c.confidence > fbm.selected.confidence

(* C35: when no candidate satisfies the metadata rules the candidate
   selected before gating has the highest confidence of the whole list,
   and the result is that decision, gated by the floor, never a stop on
   candidates of close confidence. *)
C35_ConfidenceFallback ==
    (/\ pc = "match_returned" /\ fbm.candidates # << >>
     /\ \A k \in 1..Len(fbm.candidates) :
           ~PassesArtistOverlap(fbm.source_track, fbm.candidates[k])) =>
        /\ fbm.selected \in Range(fbm.candidates)
        /\ \A c \in Range(fbm.candidates) : fbm.selected.confidence >= c.confidence
        /\ fbm.result = IF fbm.selected.confidence < min_conf(fbm.risk_mode)
                        THEN [uri |-> NoUri, confidence |-> 0, reason |-> "not_found"]
                        ELSE [uri |-> fbm.selected.uri,
                              confidence |-> fbm.selected.confidence,
                              reason |-> fbm.selected.reason]

(* Two candidates without metadata, both of confidence 0.82 and of
   different URIs: the first was selected and returned. *)
C35_Witness ==
    /\ pc = "match_returned"
    /\ Len(fbm.candidates) = 2
    /\ \A k \in 1..2 : fbm.candidates[k].artists = << >>
    /\ fbm.candidates[1].confidence = 82
    /\ fbm.candidates[2].confidence = 82
    /\ fbm.candidates[1].uri # fbm.candidates[2].uri
    /\ fbm.result.uri = fbm.candidates[1].uri

(* C36: from a candidate list in which no candidate carries the reason
   'ambiguous', find_best_match never returns the reason 'ambiguous': the
   reason is not_found or the reason of a candidate.  ambiguous_threshold
   and allow_ambiguous_best are stored by __init__ and read nowhere, so no
   value of them is an input of find_best_match.  And every transfer,
   fresh or resumed, dry-run or not, of a playlist whose track the matcher
   was given such a list for reports ambiguous_tracks = 0. *)
C36_NeverAmbiguous ==
    /\ (/\ pc = "match_returned"
        /\ \A k \in 1..Len(fbm.candidates) : fbm.candidates[k].reason # "ambiguous") =>
           /\ fbm.result.reason # "ambiguous"
           /\ fbm.result.reason \in
                 {"not_found"} \cup {fbm.candidates[k].reason : k \in 1..Len(fbm.candidates)}
    /\ (result.kind = "TransferResult" /\ "ambiguous" \notin hist.candidateReasons) =>
           result.ambiguous_tracks = 0

(* The matcher was given two candidates within ambiguous_threshold of each
   other, none of them marked 'ambiguous', and returned one of them as a
   fuzzy_match; the transfer of the playlist of that track has returned
   with one matched track and ambiguous_tracks = 0. *)
C36_Witness ==
    /\ result.kind = "TransferResult"
    /\ hist.nearTie
    /\ hist.candidateReasons = {"fuzzy_match"}
    /\ srcTracks = << Outcome(CandidateUri(1), "fuzzy_match") >>
    /\ result.matched_tracks = 1
    /\ result.ambiguous_tracks = 0

-----------------------------------------------------------------------------
(* Termination of process_batch, checked under SpecBatchLive *)

(* C30: process_batch returns an AddResult or raises TemporaryFailure in
   every execution in which the target answers RateLimited only finitely
   many times; a RateLimited answer leaves attempt as it was and the loop
   running, so answers without end keep it retrying without raising. *)
C30_TerminatesUnlessRateLimitedForever ==
    /\ <>[](pb.lastAnswer # "RateLimited") => <>(pb.state \in {"returned", "raised"})
    /\ [][(pb'.lastAnswer = "RateLimited" /\ pb' # pb)
             => (pb'.state = "running" /\ pb'.attempt = pb.attempt)]_vars

(* process_batch raised TemporaryFailure after more than MaxRateLimited
   RateLimited answers and MaxRetries + 1 failures. *)
C30_Witness ==
    /\ pb.state = "raised"
    /\ pb.error = "TemporaryFailure"
    /\ pb.rateLimited > MaxRateLimited
    /\ pb.failures = MaxRetries + 1

-----------------------------------------------------------------------------
(* Properties of calculate_snapshot_hash, checked under SpecHash *)

(* C22: calculate_snapshot_hash returns the same digest for every
   permutation of the same sequence of tracks. *)
C22_HashIgnoresOrder ==
    pc = "hash_returned" => snap.digest = snap.digestReordered

(* Three tracks with three different keys were hashed in two different
   orders: the digest is that of the keys in sorted order. *)
C22_Witness ==
    /\ pc = "hash_returned"
    /\ Len(snap.tracks) = 3
    /\ snap.tracks # snap.reordered
    /\ snap.digest = sha256("isrc:US-RC1\nisrc:USRC1\nmeta:song::x::0")

-----------------------------------------------------------------------------
(* Properties of the CheckpointManager, checked under SpecStore *)

(* C23: when every save and delete so far was for one (job id, playlist
   id), load_checkpoint for that pair returns the record of the most
   recent save if no delete followed it, and None if the last operation
   was a delete or nothing was ever saved. *)
C23_LoadReturnsLastSave ==
    (cm.op = "load_checkpoint" /\ cm.touched \subseteq {<<cm.job_id, cm.playlist_id>>})
        => cm.returned = IF cm.saved[<<cm.job_id, cm.playlist_id>>] = NoRecord
                         THEN None
                         ELSE cm.saved[<<cm.job_id, cm.playlist_id>>]

(* A load after saves for one pair only gave back the saved record, a
   record with a list of added URIs. *)
C23_Witness ==
    /\ cm.op = "load_checkpoint"
    /\ cm.touched = {<<cm.job_id, cm.playlist_id>>}
    /\ cm.returned # None
    /\ cm.returned.addedUris = PyList(<<"u1">>)

(* C24: a save or a delete for one pair never changes what load_checkpoint
   returns for a different pair, and list_checkpoints_for_job(job id)
   returns exactly the records saved under that job id. *)
C24_KeyedByPair ==
    [][/\ cm'.op \in {"save_checkpoint", "delete_checkpoint"}
           => \A pair \in Pairs \ {<<cm'.job_id, cm'.playlist_id>>} :
                 loaded(cm'.files, pair[1], pair[2]) = loaded(cm.files, pair[1], pair[2])
       /\ cm'.op = "list_checkpoints_for_job"
           => LET records == {cm.saved[pair] :
                                pair \in {q \in Pairs : q[1] = cm'.job_id}} \ {NoRecord}
              IN  /\ Range(cm'.returned.items) = records
                  /\ Len(cm'.returned.items) = Cardinality(records)]_vars

-----------------------------------------------------------------------------
(* Properties of calculate_false_match_rate, checked under SpecRate *)

(* C37: calculate_false_match_rate returns the number of matched results
   whose URI differs from a non-null expected URI divided by the number of
   matched results that have a non-null expected URI, a matched result
   without an expectation being counted in neither, and 0 when that number
   is 0; this is about the calls that return a rate, those given as many
   expected URIs as results. *)
C37_FalseMatchRate ==
    (pc = "rate_returned" /\ fmr.returned # ValueError) =>
        LET expected == {k \in 1..Len(fmr.results) :
                            fmr.results[k] # NoUri /\ fmr.expected_uris[k] # NoUri}
            wrong == {k \in expected : fmr.results[k] # fmr.expected_uris[k]}
        IN  IF expected = {} THEN fmr.returned.num = 0
            ELSE fmr.returned.num * Cardinality(expected)
                    = Cardinality(wrong) * fmr.returned.den

====
